---------------------------- MODULE Spec2Model ----------------------------
(***************************************************************************)
(* Model of the shared browser pool (scrapers/browser_pool.py) and of the  *)
(* scrape_nsn workflow (core.py) of rfq-automation.                        *)
(*                                                                         *)
(* The program runs on one asyncio event loop: a coroutine runs without    *)
(* interruption from one await to the next, so every action below is the   *)
(* code between two awaits of one coroutine.  Cancellation is delivered at *)
(* an await (asyncio.CancelledError is a BaseException, so the code's      *)
(* "except Exception" clauses do not catch it).                            *)
(***************************************************************************)
EXTENDS Integers, Sequences, FiniteSets, TLC

(***************************************************************************)
(* Bounds of the model.                                                    *)
(***************************************************************************)
NumTasks == 3          \* get_context calls in one run
NumApiTasks == 1       \* get_context calls in one run when start()/stop() are called freely
NumCtl == 2            \* concurrent callers of start() / stop()
MaxStartCalls == 2     \* start() calls in one run
MaxStopCalls == 2      \* stop() calls in one run
MaxCrashes == 1        \* crashes of the browser process in one run
MaxProcs == 3          \* browser processes launched in one run
MaxDrivers == 2        \* Playwright drivers started in one run
MaxTime == 10          \* seconds of clock time in one scrape_nsn call
TimeoutBudget == 8     \* the timeout_seconds a caller passes when it sets a deadline
SupplierCap == 2       \* the max_suppliers a caller passes when it caps the suppliers
MaxListed == 2         \* rows one source lists when the merge is checked on its own
ClockStep == 20        \* seconds the clock advances by while a request is served
MaxClock == 320        \* seconds of clock time while a request is served

(***************************************************************************)
(* config.MAX_BROWSER_PAGES (environment variable, default 4); the model   *)
(* runs the pool with 2 pages.                                             *)
(***************************************************************************)
MAX_BROWSER_PAGES == 2

(***************************************************************************)
(* config.FIRECRAWL_CONCURRENCY (environment variable, default 3); the     *)
(* model runs the contact discovery with 2 concurrent calls.               *)
(***************************************************************************)
FIRECRAWL_CONCURRENCY == 2

\* config.BROWSER_POOL_TIMEOUT: int(os.getenv("BROWSER_POOL_TIMEOUT", "300"))
BROWSER_POOL_TIMEOUT == 300

\* the pool timeout of the deployment the live tests run against
\* (tests/test_pool_503.py: "pool timeout is 120s")
DEPLOYED_POOL_TIMEOUT == 120

\* asyncio.wait_for(..., timeout=280) in the leasing endpoints
REQUEST_DEADLINE == 280

\* NSN_CONCURRENCY = 2 in scrape_nsns_suppliers_batch_endpoint
NSN_CONCURRENCY == 2

\* "(deadline - time.monotonic()) <= 5" in _discover_one
DEADLINE_MARGIN == 5

\* deadline = None
NoDeadline == -1

Tasks == 1..NumTasks
ApiTasks == 1..NumApiTasks
Ctl == 1..NumCtl
ProcIds == 1..MaxProcs
DrvIds == 1..MaxDrivers
SemIds == 1..MaxStartCalls

VARIABLES
    \* BrowserPool fields (0 stands for None)
    started,        \* _started
    playwright,     \* _playwright: a driver id, or 0
    browser,        \* _browser: a browser process id, or 0
    semaphore,      \* _semaphore: the id of the asyncio.Semaphore, or 0
    semValue,       \* the free permits of every semaphore created so far
    lock,           \* _lock: the task inside _ensure_browser's critical section, or 0
    waiting,        \* _waiting
    \* the processes behind the fields
    procState,      \* browser processes: "unborn", "running", "crashed", "closed"
    drvState,       \* Playwright drivers: "unborn", "running", "stopped"
    \* the get_context calls, each made by a task of its own
    pc,             \* where the call is
    mySem,          \* the semaphore object the call is acquiring
    myBrowser,      \* the Browser object the call holds in a local
    myDrv,          \* the driver a relaunch uses
    slot,           \* "none", "held", "released", "double": what the call did to its permit
    attempts,       \* relaunch attempts made for this call
    wasBlocked,     \* the call found no free permit when it was issued
    lastBusy,       \* the text of the last "Browser pool busy" error
    \* callers of start() and stop()
    cpc, cproc, cdrv,
    startCalls,     \* start() calls made
    stopCalls,      \* stop() calls made
    startLaunches,  \* browser processes launched by start()
    stopRaced,      \* per stop() call: a start() or a restart wrote the fields during it
    crashes,
    \* one scrape_nsn call (core.py); its get_context call is call 1
    wpc,                \* where the call is
    timeout_seconds,    \* argument
    max_suppliers,      \* argument
    firecrawlConfigured,\* config.is_firecrawl_configured()
    now,                \* time.monotonic(), in seconds
    scrape_start,       \* scrape_start
    deadline,           \* deadline, or NoDeadline
    fpc,                \* where scrape_dibbs / scrape_wbparts are
    fres,               \* dibbs_result / wbparts_result
    all_suppliers,      \* all_suppliers
    epc,                \* where each _discover_one is
    econtact,           \* the contact each _discover_one returned
    estart,             \* when the find_supplier_contact call in progress began
    firecrawl_sem,      \* free permits of firecrawl_sem
    timed_out,          \* timed_out
    slowCall,           \* some find_supplier_contact call took longer than DEADLINE_MARGIN
    result,             \* the EnhancedRFQResult returned
    finished,           \* the suppliers in the order their _discover_one ended
    \* one batch: scrape_batch (core.py) or /api/scrape-nsns-suppliers-batch (api.py)
    nsns,               \* the NSNs submitted
    bpc,                \* where the batch is
    bidx,               \* idx of scrape_batch's loop
    ipc,                \* where the processing of each item is
    iret,               \* what _limited_scrape returned for each item
    bresults,           \* batch_result.results / the results of the response
    processed,          \* batch_result.processed
    successful,         \* batch_result.successful / successful of the response
    failed,             \* batch_result.failed / failed of the response
    delays,             \* inter-item sleeps done by scrape_batch
    nsn_sem,            \* free permits of nsn_sem
    completed,          \* the items in the order their _scrape_one ended
    \* one request to a leasing endpoint (api.py); its get_context call is call 1
    endpoint,           \* the endpoint requested
    rpc,                \* where the request is, or the status of its response
    rstart,             \* time.monotonic() when the endpoint began to serve it
    pool_timeout        \* config.BROWSER_POOL_TIMEOUT

poolVars == <<started, playwright, browser, semaphore, semValue, lock, waiting>>
envVars == <<procState, drvState, crashes>>
taskVars == <<pc, mySem, myBrowser, myDrv, slot, attempts, wasBlocked, lastBusy>>
ctlVars == <<cpc, cproc, cdrv, startCalls, stopCalls, startLaunches, stopRaced>>
wfVars == <<wpc, timeout_seconds, max_suppliers, firecrawlConfigured, now, scrape_start,
            deadline, fpc, fres, all_suppliers, epc, econtact, estart, firecrawl_sem,
            timed_out, slowCall, result, finished>>
batchVars == <<nsns, bpc, bidx, ipc, iret, bresults, processed, successful, failed,
               delays, nsn_sem, completed>>
reqVars == <<endpoint, rpc, rstart, pool_timeout>>
vars == <<poolVars, envVars, taskVars, ctlVars, wfVars, batchVars, reqVars>>

(***************************************************************************)
(* Positions of a get_context call.                                        *)
(***************************************************************************)
EndPcs == {"notStarted", "busy", "error", "returned", "bodyRaised", "cancelled", "leaked"}
EnsurePcs == {"closingOld", "startingDriver", "launching"}
ClosingPcs == {"closingR", "closingE", "closingC"}
HoldingPcs == {"acquired", "creating", "using"} \cup EnsurePcs \cup ClosingPcs
StopPcs == {"stopClose", "stopDriver"}

Holders == {t \in Tasks : pc[t] \in HoldingPcs}
LiveContexts == {t \in Tasks : pc[t] \in {"using"} \cup ClosingPcs}
\* permits taken from a semaphore and not given back
HeldSlots == Cardinality({t \in Tasks : slot[t] = "held"})
Blocked(t) == pc[t] = "waiting" /\ semValue[mySem[t]] = 0

NumLaunched == Cardinality({p \in ProcIds : procState[p] # "unborn"})
NumDrivers == Cardinality({d \in DrvIds : drvState[d] # "unborn"})
NewProc == NumLaunched + 1
NewDrv == NumDrivers + 1
RunningProcs == {p \in ProcIds : procState[p] = "running"}
IsConnected == browser # 0 /\ procState[browser] = "running"

\* the stop() calls in progress when a start() or a restart writes the fields
RacedBy == [c \in Ctl |-> stopRaced[c] \/ cpc[c] \in StopPcs]

(***************************************************************************)
(* The data of one scrape_nsn call (core.py).                              *)
(***************************************************************************)
Sources == {"dibbs", "wbparts"}

\* suppliers as the two sites list them (ApprovedSource, WBPartsManufacturer)
\* (both scrapers keep a row only when its CAGE code has 5 characters)
Acme == [companyName |-> "ACME", cageCode |-> "1A2B3", partNumber |-> "P1"]
BoltD == [companyName |-> "BOLT", cageCode |-> "4C5D6", partNumber |-> "P2"]
BoltW == [companyName |-> "BOLT", cageCode |-> "4C5D6", partNumber |-> "P9"]
Coil == [companyName |-> "COIL", cageCode |-> "7E8F9", partNumber |-> "P3"]
\* the same supplier listed twice with another part number
AcmeAlt == [companyName |-> "ACME", cageCode |-> "1A2B3", partNumber |-> "P2"]
AcmeW == [companyName |-> "ACME", cageCode |-> "1A2B3", partNumber |-> "P8"]
\* the same name under another CAGE code
AcmeOther == [companyName |-> "ACME", cageCode |-> "4C5D6", partNumber |-> "P5"]
\* a row whose company cell is blank
Blank == [companyName |-> "", cageCode |-> "4C5D6", partNumber |-> "P4"]
\* rows with the separator of the key in a cell (DIBBS rows are kept for any
\* 5 characters in the CAGE cell)
Odd == [companyName |-> "A", cageCode |-> "B|1A2", partNumber |-> "P6"]
OddW == [companyName |-> "A|B", cageCode |-> "1A2B3", partNumber |-> "P7"]

\* the rows a page of each site can carry, and the lists a fetch can extract
Catalog(f) ==
    IF f = "dibbs" THEN {Acme, AcmeAlt, Blank, Odd} ELSE {AcmeW, AcmeOther, OddW}
Listings(f) ==
    UNION {[1..n -> Catalog(f)] : n \in 0..MaxListed}

\* ScrapeResult(success=False, error=...): data is None
FetchFailed == [success |-> FALSE, suppliers |-> <<>>]
\* what scrape_dibbs / scrape_wbparts can return
FetchOutcomes(f) ==
    {FetchFailed} \cup
    {[success |-> TRUE, suppliers |-> l] :
        l \in IF f = "dibbs" THEN {<<>>, <<Acme, BoltD>>} ELSE {<<>>, <<BoltW, Coil>>}}

\* what find_supplier_contact can give: no contact (or an exception), or a
\* contact with its confidence
Contacts == {"none", "low", "medium", "high"}

\* (mutant) the part number as the key
SupplierKeyPart(s) == s.partNumber

\* (mutant) the company name alone as the key
SupplierKeyName(s) == s.companyName

\* key = f"{source.company_name}|{source.cage_code}"
SupplierKey(s) == s.companyName \o "|" \o s.cageCode

\* one loop of get_unique_suppliers_list
RECURSIVE AppendUnique(_, _, _)
AppendUnique(items, seen, suppliers) ==
    IF items = <<>>
      THEN [seen |-> seen, suppliers |-> suppliers]
      ELSE LET s == Head(items)
               key == SupplierKey(s)
           IN  IF key \notin seen /\ s.companyName # ""
                 THEN AppendUnique(Tail(items), seen \cup {key}, Append(suppliers, s))
                 ELSE AppendUnique(Tail(items), seen, suppliers)

get_unique_suppliers_list(dibbs_sources, wbparts_mfrs) ==
    LET d == AppendUnique(dibbs_sources, {}, <<>>)
    IN  AppendUnique(wbparts_mfrs, d.seen, d.suppliers).suppliers

\* "if max_suppliers > 0 and len(all_suppliers) > max_suppliers: all_suppliers[:max_suppliers]"
Capped(suppliers, cap) ==
    IF cap > 0 /\ Len(suppliers) > cap THEN SubSeq(suppliers, 1, cap) ELSE suppliers

Entities == 1..Len(all_suppliers)

\* "success" if result.success else "error"
SourceStatus(r) == IF r.success THEN "success" ELSE "error"

\* (mutant) the status computed without "if timed_out:"
FirecrawlStatusNoTimeout(contacts, late) ==
    LET success_count == Cardinality({i \in DOMAIN contacts :
                                         contacts[i] # "none" /\ contacts[i] # "low"})
    IN  IF success_count = Len(contacts) THEN "success"
        ELSE IF success_count > 0 THEN "partial"
        ELSE "error"

\* the status of the contact discovery after the gather:
\* "if swc.contact and swc.contact.confidence != 'low': success_count += 1"
FirecrawlStatus(contacts, late) ==
    LET success_count == Cardinality({i \in DOMAIN contacts :
                                         contacts[i] # "none" /\ contacts[i] # "low"})
    IN  IF late THEN "partial_timeout"
        ELSE IF success_count = Len(contacts) THEN "success"
        ELSE IF success_count > 0 THEN "partial"
        ELSE "error"

\* EnhancedRFQResult(...)
BuildResult(dibbs_result, wbparts_result, suppliers, contacts, status) ==
    [dibbsStatus |-> SourceStatus(dibbs_result),
     wbpartsStatus |-> SourceStatus(wbparts_result),
     firecrawlStatus |-> status,
     suppliers |-> [i \in DOMAIN suppliers |->
                      [companyName |-> suppliers[i].companyName,
                       cageCode |-> suppliers[i].cageCode,
                       partNumber |-> suppliers[i].partNumber,
                       contact |-> contacts[i]]]]

\* no result: the call has not returned
NoResult ==
    [dibbsStatus |-> "", wbpartsStatus |-> "", firecrawlStatus |-> "", suppliers |-> <<>>]

WorkflowInit ==
    /\ wpc = "idle"
    /\ timeout_seconds = 0
    /\ max_suppliers = 0
    /\ firecrawlConfigured = FALSE
    /\ now = 0
    /\ scrape_start = 0
    /\ deadline = NoDeadline
    /\ fpc = [f \in Sources |-> "idle"]
    /\ fres = [f \in Sources |-> FetchFailed]
    /\ all_suppliers = <<>>
    /\ epc = <<>>
    /\ econtact = <<>>
    /\ estart = <<>>
    /\ firecrawl_sem = 0
    /\ timed_out = FALSE
    /\ slowCall = FALSE
    /\ result = NoResult
    /\ finished = <<>>

(***************************************************************************)
(* NSNs (utils/helpers.py).  An NSN is a string, modelled as the sequence  *)
(* of its characters.                                                      *)
(***************************************************************************)
Digits == {"0", "1", "2", "3", "4", "5", "6", "7", "8", "9"}

\* NSNs a caller submits
NsnDashed == <<"4", "5", "2", "0", "-", "0", "1", "-", "2", "6", "1", "-", "9", "6", "7", "5">>
NsnPlain == <<"5", "3", "0", "6", "0", "0", "3", "7", "3", "3", "2", "9", "1">>
NsnShort == <<"1", "2", "3", "4", "5">>
NsnSamples == {NsnDashed, NsnPlain, NsnShort}

\* re.match(r"^\d{4}-\d{2}-\d{3}-\d{4}$", nsn)
MatchesWithDashes(s) ==
    /\ Len(s) = 16
    /\ \A k \in 1..16 : IF k \in {5, 8, 12} THEN s[k] = "-" ELSE s[k] \in Digits

\* re.match(r"^\d{13}$", nsn)
MatchesWithoutDashes(s) ==
    /\ Len(s) = 13
    /\ \A k \in 1..13 : s[k] \in Digits

\* "$" also matches before a newline that ends the string
BeforeFinalNewline(s) ==
    IF s # <<>> /\ s[Len(s)] = "\n" THEN SubSeq(s, 1, Len(s) - 1) ELSE s

validate_nsn(nsn) ==
    \/ MatchesWithDashes(nsn) \/ MatchesWithDashes(BeforeFinalNewline(nsn))
    \/ MatchesWithoutDashes(nsn) \/ MatchesWithoutDashes(BeforeFinalNewline(nsn))

\* nsn.replace("-", "")
RECURSIVE format_nsn(_)
format_nsn(nsn) ==
    IF nsn = <<>> THEN <<>>
    ELSE IF Head(nsn) = "-" THEN format_nsn(Tail(nsn))
    ELSE <<Head(nsn)>> \o format_nsn(Tail(nsn))

format_nsn_with_dashes(nsn) ==
    LET clean == format_nsn(nsn)
    IN  IF Len(clean) # 13 THEN nsn
        ELSE SubSeq(clean, 1, 4) \o <<"-">> \o SubSeq(clean, 5, 6) \o <<"-">>
                 \o SubSeq(clean, 7, 9) \o <<"-">> \o SubSeq(clean, 10, 13)

\* the lists of NSNs a caller submits (item i leases with get_context call i)
Submissions == UNION {[1..n -> NsnSamples] : n \in 1..NumTasks}
Items == DOMAIN nsns

BatchInit ==
    /\ nsns = <<>>
    /\ bpc = "idle"
    /\ bidx = 0
    /\ ipc = <<>>
    /\ iret = <<>>
    /\ bresults = <<>>
    /\ processed = 0
    /\ successful = 0
    /\ failed = 0
    /\ delays = 0
    /\ nsn_sem = 0
    /\ completed = <<>>

(***************************************************************************)
(* BrowserPool.__init__                                                    *)
(***************************************************************************)
PoolInit ==
    /\ started = FALSE
    /\ playwright = 0
    /\ browser = 0
    /\ semaphore = 0
    /\ semValue = [s \in SemIds |-> 0]
    /\ lock = 0
    /\ waiting = 0
    /\ procState = [p \in ProcIds |-> "unborn"]
    /\ drvState = [d \in DrvIds |-> "unborn"]
    /\ crashes = 0
    /\ pc = [t \in Tasks |-> "idle"]
    /\ mySem = [t \in Tasks |-> 0]
    /\ myBrowser = [t \in Tasks |-> 0]
    /\ myDrv = [t \in Tasks |-> 0]
    /\ slot = [t \in Tasks |-> "none"]
    /\ attempts = [t \in Tasks |-> 0]
    /\ wasBlocked = [t \in Tasks |-> FALSE]
    /\ lastBusy = [waiting |-> 0, max_pages |-> 0]
    /\ cpc = [c \in Ctl |-> "idle"]
    /\ cproc = [c \in Ctl |-> 0]
    /\ cdrv = [c \in Ctl |-> 0]
    /\ startCalls = 0
    /\ stopCalls = 0
    /\ startLaunches = 0
    /\ stopRaced = [c \in Ctl |-> FALSE]

\* the program before any call
\* no request yet
RequestInit ==
    /\ endpoint = "none"
    /\ rpc = "idle"
    /\ rstart = 0
    /\ pool_timeout = 0

Init == PoolInit /\ WorkflowInit /\ BatchInit /\ RequestInit

(***************************************************************************)
(* BrowserPool.start                                                       *)
(***************************************************************************)
\* "if self._started: return", else up to the first await
StartBegin(c) ==
    /\ cpc[c] = "idle"
    /\ startCalls < MaxStartCalls
    /\ startCalls' = startCalls + 1
    /\ cpc' = [cpc EXCEPT ![c] = IF started THEN "idle" ELSE "startDriver"]
    /\ UNCHANGED <<poolVars, envVars, taskVars, cproc, cdrv, stopCalls, startLaunches, stopRaced>>
    /\ UNCHANGED <<wfVars, batchVars, reqVars>>

\* self._playwright = await async_playwright().start(); then chromium.launch is called
StartDriver(c) ==
    /\ cpc[c] = "startDriver"
    /\ NumDrivers < MaxDrivers
    /\ drvState' = [drvState EXCEPT ![NewDrv] = "running"]
    /\ playwright' = NewDrv
    /\ cdrv' = [cdrv EXCEPT ![c] = NewDrv]
    /\ cpc' = [cpc EXCEPT ![c] = "startBrowser"]
    /\ stopRaced' = RacedBy
    /\ UNCHANGED <<started, browser, semaphore, semValue, lock, waiting, procState, crashes,
                   taskVars, cproc, startCalls, stopCalls, startLaunches>>
    /\ UNCHANGED <<wfVars, batchVars, reqVars>>

\* self._browser = await launch(...); self._semaphore = Semaphore(MAX); self._started = True
StartBrowser(c) ==
    /\ cpc[c] = "startBrowser"
    /\ drvState[cdrv[c]] = "running"
    /\ NumLaunched < MaxProcs
    /\ procState' = [procState EXCEPT ![NewProc] = "running"]
    /\ browser' = NewProc
    /\ semaphore' = semaphore + 1
    /\ semValue' = [semValue EXCEPT ![semaphore + 1] = MAX_BROWSER_PAGES]
    /\ started' = TRUE
    /\ startLaunches' = startLaunches + 1
    /\ cpc' = [cpc EXCEPT ![c] = "idle"]
    /\ stopRaced' = RacedBy
    /\ UNCHANGED <<playwright, lock, waiting, drvState, crashes, taskVars, cproc, cdrv,
                   startCalls, stopCalls>>
    /\ UNCHANGED <<wfVars, batchVars, reqVars>>

\* the launch raises: start() raises with the driver left in self._playwright
StartBrowserFail(c) ==
    /\ cpc[c] = "startBrowser"
    /\ cpc' = [cpc EXCEPT ![c] = "idle"]
    /\ UNCHANGED <<poolVars, envVars, taskVars, cproc, cdrv, startCalls, stopCalls,
                   startLaunches, stopRaced>>
    /\ UNCHANGED <<wfVars, batchVars, reqVars>>

(***************************************************************************)
(* BrowserPool.stop                                                        *)
(***************************************************************************)
\* "if not self._started: return"; self._started = False; up to the first await
StopBegin(c) ==
    /\ cpc[c] = "idle"
    /\ stopCalls < MaxStopCalls
    /\ stopCalls' = stopCalls + 1
    /\ IF ~started
         THEN UNCHANGED <<poolVars, cpc, cproc, cdrv, stopRaced>>
         ELSE /\ started' = FALSE
              /\ stopRaced' = [stopRaced EXCEPT ![c] = FALSE]
              /\ IF browser # 0
                   THEN /\ cpc' = [cpc EXCEPT ![c] = "stopClose"]
                        /\ cproc' = [cproc EXCEPT ![c] = browser]
                        /\ UNCHANGED <<playwright, cdrv>>
                   ELSE IF playwright # 0
                          THEN /\ cpc' = [cpc EXCEPT ![c] = "stopDriver"]
                               /\ cdrv' = [cdrv EXCEPT ![c] = playwright]
                               /\ UNCHANGED <<playwright, cproc>>
                          ELSE UNCHANGED <<playwright, cpc, cproc, cdrv>>
              /\ UNCHANGED <<browser, semaphore, semValue, lock, waiting>>
    /\ UNCHANGED <<envVars, taskVars, startCalls, startLaunches>>
    /\ UNCHANGED <<wfVars, batchVars, reqVars>>

\* (mutant) stop() without "self._browser = None"
StopCloseKeepsField(c, closed) ==
    /\ cpc[c] = "stopClose"
    /\ procState' = IF closed THEN [procState EXCEPT ![cproc[c]] = "closed"] ELSE procState
    /\ IF playwright # 0
         THEN /\ cpc' = [cpc EXCEPT ![c] = "stopDriver"]
              /\ cdrv' = [cdrv EXCEPT ![c] = playwright]
         ELSE /\ cpc' = [cpc EXCEPT ![c] = "idle"]
              /\ UNCHANGED cdrv
    /\ UNCHANGED <<poolVars, drvState, crashes, taskVars, cproc, startCalls, stopCalls,
                   startLaunches, stopRaced>>
    /\ UNCHANGED <<wfVars, batchVars, reqVars>>

\* await self._browser.close() ends (closed is FALSE when it raised: the
\* exception is swallowed); self._browser = None; "if self._playwright:"
StopClose(c, closed) ==
    /\ cpc[c] = "stopClose"
    /\ procState' = IF closed THEN [procState EXCEPT ![cproc[c]] = "closed"] ELSE procState
    /\ browser' = 0
    /\ IF playwright # 0
         THEN /\ cpc' = [cpc EXCEPT ![c] = "stopDriver"]
              /\ cdrv' = [cdrv EXCEPT ![c] = playwright]
         ELSE /\ cpc' = [cpc EXCEPT ![c] = "idle"]
              /\ UNCHANGED cdrv
    /\ UNCHANGED <<started, playwright, semaphore, semValue, lock, waiting, drvState, crashes,
                   taskVars, cproc, startCalls, stopCalls, startLaunches, stopRaced>>
    /\ UNCHANGED <<wfVars, batchVars, reqVars>>

\* await self._playwright.stop() ends; self._playwright = None
StopDriver(c, stoppedOk) ==
    /\ cpc[c] = "stopDriver"
    /\ drvState' = IF stoppedOk THEN [drvState EXCEPT ![cdrv[c]] = "stopped"] ELSE drvState
    /\ playwright' = 0
    /\ cpc' = [cpc EXCEPT ![c] = "idle"]
    /\ UNCHANGED <<started, browser, semaphore, semValue, lock, waiting, procState, crashes,
                   taskVars, cproc, cdrv, startCalls, stopCalls, startLaunches, stopRaced>>
    /\ UNCHANGED <<wfVars, batchVars, reqVars>>

(***************************************************************************)
(* BrowserPool.get_context                                                 *)
(***************************************************************************)
\* (mutant) a release that is lost
ReleasedSemLost == semValue

\* self._semaphore.release()
ReleasedSem == [semValue EXCEPT ![semaphore] = @ + 1]
\* the permit of a call on its way out: "held" -> "released"
ReleasedSlot(t) ==
    [slot EXCEPT ![t] = IF @ = "held" THEN "released" ELSE "double"]
\* the locals of a call that has ended
Dropped(f, t) == [f EXCEPT ![t] = 0]

\* the started check, self._waiting += 1, and the call of wait_for(acquire)
Request(t) ==
    /\ pc[t] = "idle"
    /\ IF ~started
         THEN /\ pc' = [pc EXCEPT ![t] = "notStarted"]
              /\ UNCHANGED <<waiting, mySem, slot, attempts, wasBlocked>>
         ELSE /\ pc' = [pc EXCEPT ![t] = "waiting"]
              /\ waiting' = waiting + 1
              /\ mySem' = [mySem EXCEPT ![t] = semaphore]
              /\ slot' = [slot EXCEPT ![t] = "none"]
              /\ attempts' = [attempts EXCEPT ![t] = 0]
              /\ wasBlocked' = [wasBlocked EXCEPT ![t] = (semValue[semaphore] = 0)]
    /\ UNCHANGED <<started, playwright, browser, semaphore, semValue, lock, envVars,
                   myBrowser, myDrv, lastBusy, ctlVars>>
    /\ UNCHANGED <<wfVars, batchVars, reqVars>>

\* (mutant) an acquire that returns whether or not a permit is free
CanAcquireAlways(t) == TRUE

\* asyncio.Semaphore.acquire returns only when a permit is free
CanAcquire(t) == semValue[mySem[t]] > 0

\* the acquire returns; self._waiting -= 1
Grant(t) ==
    /\ pc[t] = "waiting"
    /\ CanAcquire(t)
    /\ semValue' = [semValue EXCEPT ![mySem[t]] = @ - 1]
    /\ waiting' = waiting - 1
    /\ slot' = [slot EXCEPT ![t] = "held"]
    /\ pc' = [pc EXCEPT ![t] = "acquired"]
    /\ UNCHANGED <<started, playwright, browser, semaphore, lock, envVars,
                   mySem, myBrowser, myDrv, attempts, wasBlocked, lastBusy, ctlVars>>
    /\ UNCHANGED <<wfVars, batchVars, reqVars>>

\* (mutant) the acquire awaited without wait_for: no timeout ever fires
TimeoutNever(t) ==
    /\ pc[t] = "waiting"
    /\ FALSE
    /\ UNCHANGED vars

\* wait_for raises TimeoutError: self._waiting -= 1; raise RuntimeError("Browser pool busy ...")
Timeout(t) ==
    /\ pc[t] = "waiting"
    /\ waiting' = waiting - 1
    /\ lastBusy' = [waiting |-> waiting - 1, max_pages |-> MAX_BROWSER_PAGES]
    /\ pc' = [pc EXCEPT ![t] = "busy"]
    /\ UNCHANGED <<started, playwright, browser, semaphore, semValue, lock, envVars,
                   mySem, myBrowser, myDrv, slot, attempts, wasBlocked, ctlVars>>
    /\ UNCHANGED <<wfVars, batchVars, reqVars>>

\* the task is cancelled inside wait_for: CancelledError is not TimeoutError,
\* so neither "self._waiting -= 1" runs
CancelWaiting(t) ==
    /\ pc[t] = "waiting"
    /\ pc' = [pc EXCEPT ![t] = "cancelled"]
    /\ UNCHANGED <<poolVars, envVars, mySem, myBrowser, myDrv, slot, attempts, wasBlocked,
                   lastBusy, ctlVars>>
    /\ UNCHANGED <<wfVars, batchVars, reqVars>>

\* (mutant) _ensure_browser without "async with self._lock"
EnsureEnterNoLock(t) ==
    /\ pc[t] = "acquired"
    /\ IF IsConnected
         THEN /\ pc' = [pc EXCEPT ![t] = "creating"]
              /\ myBrowser' = [myBrowser EXCEPT ![t] = browser]
              /\ UNCHANGED <<lock, attempts, myDrv>>
         ELSE /\ lock' = t
              /\ attempts' = [attempts EXCEPT ![t] = @ + 1]
              /\ myBrowser' = [myBrowser EXCEPT ![t] = browser]
              /\ myDrv' = [myDrv EXCEPT ![t] = playwright]
              /\ pc' = [pc EXCEPT ![t] =
                          IF browser # 0 THEN "closingOld"
                          ELSE IF playwright = 0 THEN "startingDriver" ELSE "launching"]
    /\ UNCHANGED <<started, playwright, browser, semaphore, semValue, waiting, envVars,
                   mySem, slot, wasBlocked, lastBusy, ctlVars>>
    /\ UNCHANGED <<wfVars, batchVars, reqVars>>

\* _ensure_browser: "async with self._lock", the health check, and the code
\* up to the first await of the restart
EnsureEnter(t) ==
    /\ pc[t] = "acquired"
    /\ lock = 0
    /\ IF IsConnected
         THEN /\ pc' = [pc EXCEPT ![t] = "creating"]
              /\ myBrowser' = [myBrowser EXCEPT ![t] = browser]
              /\ UNCHANGED <<lock, attempts, myDrv>>
         ELSE /\ lock' = t
              /\ attempts' = [attempts EXCEPT ![t] = @ + 1]
              /\ myBrowser' = [myBrowser EXCEPT ![t] = browser]
              /\ myDrv' = [myDrv EXCEPT ![t] = playwright]
              /\ pc' = [pc EXCEPT ![t] =
                          IF browser # 0 THEN "closingOld"
                          ELSE IF playwright = 0 THEN "startingDriver" ELSE "launching"]
    /\ UNCHANGED <<started, playwright, browser, semaphore, semValue, waiting, envVars,
                   mySem, slot, wasBlocked, lastBusy, ctlVars>>
    /\ UNCHANGED <<wfVars, batchVars, reqVars>>

\* await self._browser.close() ends (an exception is swallowed); "if not self._playwright:"
EnsureCloseOld(t) ==
    /\ pc[t] = "closingOld"
    /\ procState' = [procState EXCEPT ![myBrowser[t]] = "closed"]
    /\ myDrv' = [myDrv EXCEPT ![t] = playwright]
    /\ pc' = [pc EXCEPT ![t] = IF playwright = 0 THEN "startingDriver" ELSE "launching"]
    /\ UNCHANGED <<poolVars, drvState, crashes, mySem, myBrowser, slot, attempts, wasBlocked,
                   lastBusy, ctlVars>>
    /\ UNCHANGED <<wfVars, batchVars, reqVars>>

\* self._playwright = await async_playwright().start()
EnsureStartDriver(t) ==
    /\ pc[t] = "startingDriver"
    /\ NumDrivers < MaxDrivers
    /\ drvState' = [drvState EXCEPT ![NewDrv] = "running"]
    /\ playwright' = NewDrv
    /\ myDrv' = [myDrv EXCEPT ![t] = NewDrv]
    /\ pc' = [pc EXCEPT ![t] = "launching"]
    /\ stopRaced' = RacedBy
    /\ UNCHANGED <<started, browser, semaphore, semValue, lock, waiting, procState, crashes,
                   mySem, myBrowser, slot, attempts, wasBlocked, lastBusy,
                   cpc, cproc, cdrv, startCalls, stopCalls, startLaunches>>
    /\ UNCHANGED <<wfVars, batchVars, reqVars>>

\* self._browser = await self._playwright.chromium.launch(...); return self._browser
EnsureLaunch(t) ==
    /\ pc[t] = "launching"
    /\ drvState[myDrv[t]] = "running"
    /\ NumLaunched < MaxProcs
    /\ procState' = [procState EXCEPT ![NewProc] = "running"]
    /\ browser' = NewProc
    /\ myBrowser' = [myBrowser EXCEPT ![t] = NewProc]
    /\ lock' = 0
    /\ pc' = [pc EXCEPT ![t] = "creating"]
    /\ stopRaced' = RacedBy
    /\ UNCHANGED <<started, playwright, semaphore, semValue, waiting, drvState, crashes,
                   mySem, myDrv, slot, attempts, wasBlocked, lastBusy,
                   cpc, cproc, cdrv, startCalls, stopCalls, startLaunches>>
    /\ UNCHANGED <<wfVars, batchVars, reqVars>>

\* (mutant) the exception of a failed restart leaves get_context before the release
LaunchFailSemKept == semValue

\* the permits after a failed restart: get_context's finally releases the slot
LaunchFailSem == ReleasedSem

\* the driver start or the launch raises: the lock is released, the
\* exception leaves _ensure_browser and get_context's finally runs with ctx = None
EnsureFail(t) ==
    /\ pc[t] \in {"startingDriver", "launching"}
    /\ lock' = 0
    /\ semValue' = LaunchFailSem
    /\ slot' = ReleasedSlot(t)
    /\ pc' = [pc EXCEPT ![t] = "error"]
    /\ myBrowser' = Dropped(myBrowser, t)
    /\ myDrv' = Dropped(myDrv, t)
    /\ attempts' = Dropped(attempts, t)
    /\ UNCHANGED <<started, playwright, browser, semaphore, waiting, envVars,
                   mySem, wasBlocked, lastBusy, ctlVars>>
    /\ UNCHANGED <<wfVars, batchVars, reqVars>>

\* ctx = await browser.new_context(...); yield ctx
CreateContext(t) ==
    /\ pc[t] = "creating"
    /\ procState[myBrowser[t]] = "running"
    /\ pc' = [pc EXCEPT ![t] = "using"]
    /\ UNCHANGED <<poolVars, envVars, mySem, myBrowser, myDrv, slot, attempts, wasBlocked,
                   lastBusy, ctlVars>>
    /\ UNCHANGED <<wfVars, batchVars, reqVars>>

\* new_context raises: finally runs with ctx = None
CreateContextFail(t) ==
    /\ pc[t] = "creating"
    /\ semValue' = ReleasedSem
    /\ slot' = ReleasedSlot(t)
    /\ pc' = [pc EXCEPT ![t] = "error"]
    /\ myBrowser' = Dropped(myBrowser, t)
    /\ myDrv' = Dropped(myDrv, t)
    /\ attempts' = Dropped(attempts, t)
    /\ UNCHANGED <<started, playwright, browser, semaphore, lock, waiting, envVars,
                   mySem, wasBlocked, lastBusy, ctlVars>>
    /\ UNCHANGED <<wfVars, batchVars, reqVars>>

\* the caller's block ends (how: "closingR" it returned, "closingE" it raised,
\* "closingC" the task was cancelled in it); finally: await ctx.close() begins
BodyExit(t, how) ==
    /\ pc[t] = "using"
    /\ pc' = [pc EXCEPT ![t] = how]
    /\ myBrowser' = Dropped(myBrowser, t)
    /\ myDrv' = Dropped(myDrv, t)
    /\ attempts' = Dropped(attempts, t)
    /\ wasBlocked' = [wasBlocked EXCEPT ![t] = FALSE]
    /\ UNCHANGED <<poolVars, envVars, mySem, slot, lastBusy, ctlVars>>
    /\ UNCHANGED <<wfVars, batchVars, reqVars>>

\* await ctx.close() ends (an exception is swallowed); self._semaphore.release()
CloseContext(t) ==
    /\ pc[t] \in ClosingPcs
    /\ semValue' = ReleasedSem
    /\ slot' = ReleasedSlot(t)
    /\ pc' = [pc EXCEPT ![t] = CASE pc[t] = "closingR" -> "returned"
                                 [] pc[t] = "closingE" -> "bodyRaised"
                                 [] OTHER -> "cancelled"]
    /\ UNCHANGED <<started, playwright, browser, semaphore, lock, waiting, envVars,
                   mySem, myBrowser, myDrv, attempts, wasBlocked, lastBusy, ctlVars>>
    /\ UNCHANGED <<wfVars, batchVars, reqVars>>

\* the task is cancelled between the acquire and the yield (waiting for the
\* lock, in the restart, in new_context): finally runs with ctx = None
CancelBeforeContext(t) ==
    /\ \/ pc[t] = "acquired" /\ lock # 0
       \/ pc[t] \in EnsurePcs
       \/ pc[t] = "creating"
    /\ lock' = IF lock = t THEN 0 ELSE lock
    /\ semValue' = ReleasedSem
    /\ slot' = ReleasedSlot(t)
    /\ pc' = [pc EXCEPT ![t] = "cancelled"]
    /\ myBrowser' = Dropped(myBrowser, t)
    /\ myDrv' = Dropped(myDrv, t)
    /\ attempts' = Dropped(attempts, t)
    /\ UNCHANGED <<started, playwright, browser, semaphore, waiting, envVars,
                   mySem, wasBlocked, lastBusy, ctlVars>>
    /\ UNCHANGED <<wfVars, batchVars, reqVars>>

\* the task is cancelled inside "await ctx.close()": CancelledError passes
\* "except Exception" and leaves the finally block before the release
CancelClosing(t) ==
    /\ pc[t] \in ClosingPcs
    /\ pc' = [pc EXCEPT ![t] = "leaked"]
    /\ UNCHANGED <<poolVars, envVars, mySem, myBrowser, myDrv, slot, attempts, wasBlocked,
                   lastBusy, ctlVars>>
    /\ UNCHANGED <<wfVars, batchVars, reqVars>>

\* the Chromium process dies: Browser.is_connected() turns False
BrowserCrash ==
    /\ IsConnected
    /\ crashes < MaxCrashes
    /\ procState' = [procState EXCEPT ![browser] = "crashed"]
    /\ crashes' = crashes + 1
    /\ UNCHANGED <<poolVars, drvState, taskVars, ctlVars>>
    /\ UNCHANGED <<wfVars, batchVars, reqVars>>

\* the steps of a get_context call on a pool that is never stopped: the driver
\* is then never None inside _ensure_browser
ServingLeaseStep(t) ==
    \/ Request(t)
    \/ Grant(t)
    \/ Timeout(t)
    \/ CancelWaiting(t)
    \/ EnsureEnter(t)
    \/ EnsureCloseOld(t)
    \/ EnsureLaunch(t)
    \/ EnsureFail(t)
    \/ CreateContext(t)
    \/ CreateContextFail(t)
    \/ \E how \in ClosingPcs : BodyExit(t, how)
    \/ CloseContext(t)
    \/ CancelBeforeContext(t)
    \/ CancelClosing(t)

LeaseStep(t) ==
    \/ Request(t)
    \/ Grant(t)
    \/ Timeout(t)
    \/ CancelWaiting(t)
    \/ EnsureEnter(t)
    \/ EnsureCloseOld(t)
    \/ EnsureStartDriver(t)
    \/ EnsureLaunch(t)
    \/ EnsureFail(t)
    \/ CreateContext(t)
    \/ CreateContextFail(t)
    \/ \E how \in ClosingPcs : BodyExit(t, how)
    \/ CloseContext(t)
    \/ CancelBeforeContext(t)
    \/ CancelClosing(t)

(***************************************************************************)
(* The application while it serves (api.py lifespan): start() is awaited   *)
(* once at startup, then the endpoints lease contexts until shutdown.      *)
(***************************************************************************)
AppStart == startCalls = 0 /\ StartBegin(1)

Next ==
    \/ AppStart
    \/ StartDriver(1)
    \/ StartBrowser(1)
    \/ StartBrowserFail(1)
    \/ BrowserCrash
    \/ \E t \in Tasks : ServingLeaseStep(t)

Spec == Init /\ [][Next]_vars

(***************************************************************************)
(* The pool as an object: start() and stop() called in any order by        *)
(* concurrent callers.                                                     *)
(***************************************************************************)
NextApi ==
    \/ \E c \in Ctl : StartBegin(c)
    \/ \E c \in Ctl : StartDriver(c)
    \/ \E c \in Ctl : StartBrowser(c)
    \/ \E c \in Ctl : StartBrowserFail(c)
    \/ \E c \in Ctl : StopBegin(c)
    \/ \E c \in Ctl, ok \in BOOLEAN : StopClose(c, ok)
    \/ \E c \in Ctl, ok \in BOOLEAN : StopDriver(c, ok)
    \/ BrowserCrash
    \/ \E t \in ApiTasks : LeaseStep(t)

SpecApi == Init /\ [][NextApi]_vars

(***************************************************************************)
(* scrape_nsn (core.py).  Its get_context call is call 1 of the pool.      *)
(***************************************************************************)
\* the call is entered: scrape_start = time.monotonic(); "if browser_pool._started:"
\* chooses the pool path, else both fetches start with browsers of their own
ScrapeNsnEnter(T, cap, configured) ==
    /\ wpc = "idle"
    /\ pc[1] = "idle"
    /\ timeout_seconds' = T
    /\ max_suppliers' = cap
    /\ firecrawlConfigured' = configured
    /\ scrape_start' = now
    /\ IF started
         THEN wpc' = "lease" /\ UNCHANGED fpc
         ELSE wpc' = "stageA" /\ fpc' = [f \in Sources |-> "scraping"]
    /\ UNCHANGED <<poolVars, envVars, taskVars, ctlVars, batchVars, reqVars, finished, now, deadline, fres, all_suppliers,
                   epc, econtact, estart, firecrawl_sem, timed_out, slowCall, result>>

\* "async with browser_pool.get_context() as ctx:" begins
LeaseRequest == wpc = "lease" /\ Request(1)

\* the context is yielded: asyncio.gather starts scrape_dibbs(ctx) and scrape_wbparts(ctx)
GatherStart ==
    /\ wpc = "lease"
    /\ pc[1] = "using"
    /\ wpc' = "stageA"
    /\ fpc' = [f \in Sources |-> "newPage"]
    /\ UNCHANGED <<poolVars, envVars, taskVars, ctlVars, batchVars, reqVars, finished, timeout_seconds, max_suppliers,
                   firecrawlConfigured, now, scrape_start, deadline, fres, all_suppliers,
                   epc, econtact, estart, firecrawl_sem, timed_out, slowCall, result>>

\* pool path of scrape_dibbs / scrape_wbparts: page = await browser_context.new_page()
NewPage(f) ==
    /\ fpc[f] = "newPage"
    /\ fpc' = [fpc EXCEPT ![f] = "scraping"]
    /\ UNCHANGED <<poolVars, envVars, taskVars, ctlVars, batchVars, reqVars, finished, wpc, timeout_seconds, max_suppliers,
                   firecrawlConfigured, now, scrape_start, deadline, fres, all_suppliers,
                   epc, econtact, estart, firecrawl_sem, timed_out, slowCall, result>>

\* new_page raises (the browser died, the context is closed): the call is
\* outside every try, the exception leaves scrape_dibbs / scrape_wbparts
NewPageFail(f) ==
    /\ fpc[f] = "newPage"
    /\ fpc' = [fpc EXCEPT ![f] = "raised"]
    /\ UNCHANGED <<poolVars, envVars, taskVars, ctlVars, batchVars, reqVars, finished, wpc, timeout_seconds, max_suppliers,
                   firecrawlConfigured, now, scrape_start, deadline, fres, all_suppliers,
                   epc, econtact, estart, firecrawl_sem, timed_out, slowCall, result>>

\* _do_scrape_dibbs / _do_scrape_wbparts (or the standalone path) returns a
\* ScrapeResult: every exception in them is caught and becomes success=False
FetchDone(f, r) ==
    /\ fpc[f] = "scraping"
    /\ fpc' = [fpc EXCEPT ![f] = "done"]
    /\ fres' = [fres EXCEPT ![f] = r]
    /\ UNCHANGED <<poolVars, envVars, taskVars, ctlVars, batchVars, reqVars, finished, wpc, timeout_seconds, max_suppliers,
                   firecrawlConfigured, now, scrape_start, deadline, all_suppliers,
                   epc, econtact, estart, firecrawl_sem, timed_out, slowCall, result>>

\* both fetches returned: the gather returns and the with-block ends
GatherReturns ==
    /\ wpc = "stageA"
    /\ \A f \in Sources : fpc[f] = "done"
    /\ BodyExit(1, "closingR")

\* a fetch raised: the gather raises its exception at once (the other fetch
\* is not cancelled) and the exception leaves the with-block
GatherRaises ==
    /\ wpc = "stageA"
    /\ \E f \in Sources : fpc[f] = "raised"
    /\ BodyExit(1, "closingE")

\* get_context raised, or the exception of a fetch left it: scrape_nsn raises
ScrapeNsnRaises ==
    /\ wpc \in {"lease", "stageA"}
    /\ pc[1] \in {"notStarted", "busy", "error", "bodyRaised"}
    /\ wpc' = "raised"
    /\ UNCHANGED <<poolVars, envVars, taskVars, ctlVars, batchVars, reqVars, finished, timeout_seconds, max_suppliers,
                   firecrawlConfigured, now, scrape_start, deadline, fpc, fres, all_suppliers,
                   epc, econtact, estart, firecrawl_sem, timed_out, slowCall, result>>

\* after the gather: merge and cap the suppliers, set the deadline, then
\* either start the contact discovery or build the result without it
StageAEnd ==
    /\ wpc = "stageA"
    /\ \A f \in Sources : fpc[f] = "done"
    /\ pc[1] \in {"idle", "returned"}
    /\ LET merged == get_unique_suppliers_list(fres["dibbs"].suppliers,
                                               fres["wbparts"].suppliers)
           suppliers == Capped(merged, max_suppliers)
           none == [i \in DOMAIN suppliers |-> "none"]
       IN  /\ all_suppliers' = suppliers
           /\ deadline' = IF timeout_seconds > 0 THEN now + timeout_seconds ELSE NoDeadline
           /\ IF suppliers # <<>> /\ firecrawlConfigured
                THEN /\ wpc' = "stageC"
                     /\ firecrawl_sem' = FIRECRAWL_CONCURRENCY
                     /\ epc' = [i \in DOMAIN suppliers |-> "pending"]
                     /\ econtact' = none
                     /\ estart' = [i \in DOMAIN suppliers |-> 0]
                     /\ UNCHANGED result
                ELSE /\ wpc' = "returned"
                     /\ result' = BuildResult(fres["dibbs"], fres["wbparts"], suppliers,
                                              none, "skipped")
                     /\ UNCHANGED <<firecrawl_sem, epc, econtact, estart>>
    /\ UNCHANGED <<poolVars, envVars, taskVars, ctlVars, batchVars, reqVars, finished, timeout_seconds, max_suppliers,
                   firecrawlConfigured, now, scrape_start, fpc, fres, timed_out, slowCall>>

\* (mutant) _discover_one(i) without "async with firecrawl_sem"
DiscoverBeginUnbounded(i) ==
    /\ wpc = "stageC"
    /\ epc[i] = "pending"
    /\ \A j \in 1..(i - 1) : epc[j] # "pending"
    /\ IF deadline # NoDeadline /\ deadline - now <= DEADLINE_MARGIN
         THEN /\ timed_out' = TRUE
              /\ epc' = [epc EXCEPT ![i] = "skipped"]
              /\ finished' = Append(finished, i)
              /\ UNCHANGED <<firecrawl_sem, estart>>
         ELSE /\ firecrawl_sem' = firecrawl_sem - 1
              /\ epc' = [epc EXCEPT ![i] = "calling"]
              /\ estart' = [estart EXCEPT ![i] = now]
              /\ UNCHANGED <<timed_out, finished>>
    /\ UNCHANGED <<poolVars, envVars, taskVars, ctlVars, batchVars, reqVars, wpc, timeout_seconds, max_suppliers,
                   firecrawlConfigured, now, scrape_start, deadline, fpc, fres, all_suppliers,
                   econtact, slowCall, result>>

\* _discover_one(i) starts (the gather starts them in order, in one pass of
\* the event loop): the deadline check, then "async with firecrawl_sem" and,
\* with a free permit, the call of find_supplier_contact
DiscoverBegin(i) ==
    /\ wpc = "stageC"
    /\ epc[i] = "pending"
    /\ \A j \in 1..(i - 1) : epc[j] # "pending"
    /\ IF deadline # NoDeadline /\ deadline - now <= DEADLINE_MARGIN
         THEN /\ timed_out' = TRUE
              /\ epc' = [epc EXCEPT ![i] = "skipped"]
              /\ finished' = Append(finished, i)
              /\ UNCHANGED <<firecrawl_sem, estart>>
         ELSE IF firecrawl_sem > 0
                THEN /\ firecrawl_sem' = firecrawl_sem - 1
                     /\ epc' = [epc EXCEPT ![i] = "calling"]
                     /\ estart' = [estart EXCEPT ![i] = now]
                     /\ UNCHANGED <<timed_out, finished>>
                ELSE /\ epc' = [epc EXCEPT ![i] = "waitingSem"]
                     /\ UNCHANGED <<firecrawl_sem, estart, timed_out, finished>>
    /\ UNCHANGED <<poolVars, envVars, taskVars, ctlVars, batchVars, reqVars, wpc, timeout_seconds, max_suppliers,
                   firecrawlConfigured, now, scrape_start, deadline, fpc, fres, all_suppliers,
                   econtact, slowCall, result>>

\* the _discover_one calls waiting in "async with firecrawl_sem" (they queue in order)
SemWaiters == {j \in DOMAIN epc : epc[j] = "waitingSem"}
NextWaiter == CHOOSE j \in SemWaiters : \A k \in SemWaiters : j <= k

\* find_supplier_contact ends for supplier i (an exception gives no contact);
\* leaving "async with firecrawl_sem" releases the permit, which wakes the
\* first waiter: it goes on to its call of find_supplier_contact
CallEnd(i, contact) ==
    /\ wpc = "stageC"
    /\ epc[i] = "calling"
    /\ econtact' = [econtact EXCEPT ![i] = contact]
    /\ finished' = Append(finished, i)
    /\ slowCall' = (slowCall \/ now - estart[i] > DEADLINE_MARGIN)
    /\ IF SemWaiters = {}
         THEN /\ firecrawl_sem' = firecrawl_sem + 1
              /\ epc' = [epc EXCEPT ![i] = "done"]
              /\ estart' = [estart EXCEPT ![i] = 0]
         ELSE /\ epc' = [epc EXCEPT ![i] = "done", ![NextWaiter] = "calling"]
              /\ estart' = [estart EXCEPT ![i] = 0, ![NextWaiter] = now]
              /\ UNCHANGED firecrawl_sem
    /\ UNCHANGED <<poolVars, envVars, taskVars, ctlVars, batchVars, reqVars, wpc, timeout_seconds, max_suppliers,
                   firecrawlConfigured, now, scrape_start, deadline, fpc, fres, all_suppliers,
                   timed_out, result>>

\* (mutant) the results taken in the order the calls ended
DiscoverCompletionOrder == finished

\* "results = await asyncio.gather(*[_discover_one(idx, s) for idx, s in
\* enumerate(all_suppliers)])": the gather gives the results in the order of
\* its awaitables, which is the order of all_suppliers
DiscoverOrder == [k \in Entities |-> k]

\* the gather of the _discover_one calls returns: count the successes, set
\* firecrawl_status, build and return the EnhancedRFQResult
StageCEnd ==
    /\ wpc = "stageC"
    /\ \A i \in Entities : epc[i] \in {"done", "skipped"}
    /\ wpc' = "returned"
    /\ result' = BuildResult(fres["dibbs"], fres["wbparts"],
                             [k \in Entities |-> all_suppliers[DiscoverOrder[k]]],
                             [k \in Entities |-> econtact[DiscoverOrder[k]]],
                             FirecrawlStatus(econtact, timed_out))
    /\ UNCHANGED <<poolVars, envVars, taskVars, ctlVars, batchVars, reqVars, finished, timeout_seconds, max_suppliers,
                   firecrawlConfigured, now, scrape_start, deadline, fpc, fres, all_suppliers,
                   epc, econtact, estart, firecrawl_sem, timed_out, slowCall>>

\* scrape_nsn, or a coroutine it started, is ready to run: it is not
\* suspended at an await on the browser, the network or a worker thread
Runnable ==
    \/ wpc = "lease" /\ pc[1] \in {"idle", "using", "notStarted", "busy", "error"}
    \/ wpc = "stageA" /\ pc[1] = "using" /\ \E f \in Sources : fpc[f] = "raised"
    \/ wpc = "stageA" /\ pc[1] \in {"idle", "using", "returned"}
                      /\ \A f \in Sources : fpc[f] = "done"
    \/ wpc = "stageA" /\ pc[1] = "bodyRaised"
    \/ wpc = "stageC" /\ \E i \in DOMAIN epc : epc[i] = "pending"
    \/ wpc = "stageC" /\ \A i \in DOMAIN epc : epc[i] \in {"done", "skipped"}

\* a second passes while the call is suspended at an await (the code that
\* runs between two awaits takes no time on this scale)
Tick ==
    /\ wpc \in {"lease", "stageA", "stageC"}
    /\ ~Runnable
    /\ now < MaxTime
    /\ now' = now + 1
    /\ UNCHANGED <<poolVars, envVars, taskVars, ctlVars, batchVars, reqVars, finished, wpc, timeout_seconds, max_suppliers,
                   firecrawlConfigured, scrape_start, deadline, fpc, fres, all_suppliers,
                   epc, econtact, estart, firecrawl_sem, timed_out, slowCall, result>>

\* the timeout_seconds of a call: no deadline, a deadline inside the margin,
\* a deadline beyond it
Budgets == {0, DEADLINE_MARGIN - 1, TimeoutBudget}

\* the application serving one scrape_nsn call (an endpoint of api.py, or the
\* command line when the pool is not started)
NextWorkflow ==
    \/ AppStart
    \/ StartDriver(1)
    \/ StartBrowser(1)
    \/ StartBrowserFail(1)
    \/ BrowserCrash
    \/ \E T \in Budgets, cap \in {0, SupplierCap}, configured \in BOOLEAN :
           ScrapeNsnEnter(T, cap, configured)
    \/ LeaseRequest
    \/ Grant(1)
    \/ EnsureEnter(1)
    \/ EnsureCloseOld(1)
    \/ EnsureLaunch(1)
    \/ EnsureFail(1)
    \/ CreateContext(1)
    \/ CreateContextFail(1)
    \/ GatherStart
    \/ \E f \in Sources : NewPage(f)
    \/ \E f \in Sources : NewPageFail(f)
    \/ \E f \in Sources : \E r \in FetchOutcomes(f) : FetchDone(f, r)
    \/ GatherReturns
    \/ GatherRaises
    \/ CloseContext(1)
    \/ ScrapeNsnRaises
    \/ StageAEnd
    \/ \E i \in Entities : DiscoverBegin(i)
    \/ \E i \in Entities, contact \in Contacts : CallEnd(i, contact)
    \/ StageCEnd
    \/ Tick

SpecWorkflow == Init /\ [][NextWorkflow]_vars

(***************************************************************************)
(* The merge of scrape_nsn on its own: the call is taken where the gather  *)
(* of the two fetches has returned (standalone path, no cap, no contact    *)
(* discovery), with every pair of fetch results over the catalog.          *)
(***************************************************************************)
MergeInit ==
    /\ wpc = "stageA"
    /\ timeout_seconds = 0
    /\ max_suppliers = 0
    /\ firecrawlConfigured = FALSE
    /\ now = 0
    /\ scrape_start = 0
    /\ deadline = NoDeadline
    /\ fpc = [f \in Sources |-> "done"]
    /\ fres \in [Sources -> {FetchFailed} \cup
                              {[success |-> TRUE, suppliers |-> l] :
                                  l \in Listings("dibbs") \cup Listings("wbparts")}]
    /\ \A f \in Sources : fres[f].suppliers \in Listings(f)
    /\ all_suppliers = <<>>
    /\ epc = <<>>
    /\ econtact = <<>>
    /\ estart = <<>>
    /\ firecrawl_sem = 0
    /\ timed_out = FALSE
    /\ slowCall = FALSE
    /\ result = NoResult
    /\ finished = <<>>

NextMerge == StageAEnd

InitMerge == PoolInit /\ MergeInit /\ BatchInit /\ RequestInit

SpecMerge == InitMerge /\ [][NextMerge]_vars

(***************************************************************************)
(* scrape_batch (core.py): the paced-sequential batch.  The scrape_nsn     *)
(* call of item i is followed through its lease (get_context call i); its  *)
(* fetches and its contact discovery are the steps of SpecWorkflow and are  *)
(* not repeated here.                                                      *)
(***************************************************************************)
\* scrape_nsn is entered for an item: "if browser_pool._started:" chooses the path
ItemEntered == IF started THEN "lease" ELSE "standalone"

\* the scrape_nsn call of item i has returned its result
ScrapeReturned(i) ==
    \/ ipc[i] = "standalone"
    \/ ipc[i] = "lease" /\ pc[i] = "returned"

\* the scrape_nsn call of item i has raised
ScrapeRaised(i) ==
    ipc[i] = "lease" /\ pc[i] \in {"notStarted", "busy", "error", "bodyRaised"}

\* a BatchNSNResult (item: the submitted item the entry was made for)
BatchEntry(i, nsn, status) == [item |-> i, nsn |-> nsn, status |-> status]

\* batch_result = BatchProcessingResult(totalNsns=len(nsns), results=[], ...)
ScrapeBatchEnter(list) ==
    /\ bpc = "idle"
    /\ nsns' = list
    /\ bpc' = "loop"
    /\ bidx' = 1
    /\ ipc' = [i \in DOMAIN list |-> "none"]
    /\ bresults' = <<>>
    /\ processed' = 0
    /\ successful' = 0
    /\ failed' = 0
    /\ delays' = 0
    /\ UNCHANGED <<poolVars, envVars, taskVars, ctlVars, wfVars, reqVars, iret, nsn_sem, completed>>

\* (mutant) a pass of the loop without "if not validate_nsn(nsn):"
BatchItemNoValidation ==
    /\ bpc = "loop"
    /\ bidx <= Len(nsns)
    /\ bresults' = Append(bresults,
                       BatchEntry(bidx, format_nsn_with_dashes(nsns[bidx]), "processing"))
    /\ ipc' = [ipc EXCEPT ![bidx] = ItemEntered]
    /\ bpc' = "scraping"
    /\ UNCHANGED <<processed, failed, bidx>>
    /\ UNCHANGED <<poolVars, envVars, taskVars, ctlVars, wfVars, reqVars, nsns, iret, successful,
                   delays, nsn_sem, completed>>

\* one pass of the loop up to its first await: an invalid NSN is recorded as
\* an error and the loop continues; a valid one gets its "processing" entry
\* and scrape_nsn is called
BatchItem ==
    /\ bpc = "loop"
    /\ bidx <= Len(nsns)
    /\ IF ~validate_nsn(nsns[bidx])
         THEN /\ bresults' = Append(bresults, BatchEntry(bidx, nsns[bidx], "error"))
              /\ processed' = processed + 1
              /\ failed' = failed + 1
              /\ bidx' = bidx + 1
              /\ UNCHANGED <<bpc, ipc>>
         ELSE /\ bresults' = Append(bresults,
                       BatchEntry(bidx, format_nsn_with_dashes(nsns[bidx]), "processing"))
              /\ ipc' = [ipc EXCEPT ![bidx] = ItemEntered]
              /\ bpc' = "scraping"
              /\ UNCHANGED <<processed, failed, bidx>>
    /\ UNCHANGED <<poolVars, envVars, taskVars, ctlVars, wfVars, reqVars, nsns, iret, successful,
                   delays, nsn_sem, completed>>

\* "if idx < len(nsns): await asyncio.sleep(...)", else the loop ends
AfterItem == IF bidx < Len(nsns) THEN "sleeping" ELSE "loop"
AfterItemIdx == IF bidx < Len(nsns) THEN bidx ELSE bidx + 1

\* the except clause after save_result (or model_dump) raised: failed += 1
SaveFailedCount == failed + 1

\* scrape_nsn returned: status success, successful += 1, then save_result;
\* when save_result raises, the except clause makes the entry an error and
\* adds 1 to failed; processed += 1
BatchItemReturns(saved) ==
    /\ bpc = "scraping"
    /\ ScrapeReturned(bidx)
    /\ successful' = successful + 1
    /\ bresults' = [bresults EXCEPT ![bidx].status = IF saved THEN "success" ELSE "error"]
    /\ failed' = IF saved THEN failed ELSE SaveFailedCount
    /\ processed' = processed + 1
    /\ ipc' = [ipc EXCEPT ![bidx] = "done"]
    /\ bpc' = AfterItem
    /\ bidx' = AfterItemIdx
    /\ UNCHANGED <<poolVars, envVars, taskVars, ctlVars, wfVars, reqVars, nsns, iret, delays, nsn_sem, completed>>

\* (mutant) an exception of scrape_nsn that ends the loop
RaisedNextNone == "returned"

\* where the loop goes after the except clause
RaisedNext == AfterItem

\* scrape_nsn raised: the except clause makes the entry an error, failed += 1;
\* processed += 1
BatchItemRaises ==
    /\ bpc = "scraping"
    /\ ScrapeRaised(bidx)
    /\ bresults' = [bresults EXCEPT ![bidx].status = "error"]
    /\ failed' = failed + 1
    /\ processed' = processed + 1
    /\ ipc' = [ipc EXCEPT ![bidx] = "done"]
    /\ bpc' = RaisedNext
    /\ bidx' = AfterItemIdx
    /\ UNCHANGED <<poolVars, envVars, taskVars, ctlVars, wfVars, reqVars, nsns, iret, successful,
                   delays, nsn_sem, completed>>

\* await asyncio.sleep(config.BATCH_DELAY / 1000) ends; the next pass begins
BatchSleepEnd ==
    /\ bpc = "sleeping"
    /\ delays' = delays + 1
    /\ bidx' = bidx + 1
    /\ bpc' = "loop"
    /\ UNCHANGED <<poolVars, envVars, taskVars, ctlVars, wfVars, reqVars, nsns, ipc, iret, bresults,
                   processed, successful, failed, nsn_sem, completed>>

\* the loop is over: batch_result.completed_at = ...; return batch_result
ScrapeBatchReturn ==
    /\ bpc = "loop"
    /\ bidx > Len(nsns)
    /\ bpc' = "returned"
    /\ UNCHANGED <<poolVars, envVars, taskVars, ctlVars, wfVars, reqVars, nsns, bidx, ipc, iret,
                   bresults, processed, successful, failed, delays, nsn_sem, completed>>

\* the lease of the scrape_nsn call of item i: "async with get_context()"
\* around the gather of the two fetches, which returns or raises
ItemLease(i) ==
    \/ i \in DOMAIN ipc /\ ipc[i] = "lease" /\ Request(i)
    \/ Grant(i)
    \/ EnsureEnter(i)
    \/ CreateContext(i)
    \/ CreateContextFail(i)
    \/ BodyExit(i, "closingR")
    \/ BodyExit(i, "closingE")
    \/ CloseContext(i)

(***************************************************************************)
(* /api/scrape-nsns-suppliers-batch (api.py): the bounded-concurrent       *)
(* batch.                                                                  *)
(***************************************************************************)
\* the values of config.MAX_BROWSER_PAGES the batches are run with
Capacities == 1..MAX_BROWSER_PAGES

\* BrowserPool.start with MAX_BROWSER_PAGES configured as m: self._browser =
\* await launch(...); self._semaphore = Semaphore(m); self._started = True
StartBrowserConfigured(c, m) ==
    /\ cpc[c] = "startBrowser"
    /\ drvState[cdrv[c]] = "running"
    /\ NumLaunched < MaxProcs
    /\ procState' = [procState EXCEPT ![NewProc] = "running"]
    /\ browser' = NewProc
    /\ semaphore' = semaphore + 1
    /\ semValue' = [semValue EXCEPT ![semaphore + 1] = m]
    /\ started' = TRUE
    /\ startLaunches' = startLaunches + 1
    /\ cpc' = [cpc EXCEPT ![c] = "idle"]
    /\ stopRaced' = RacedBy
    /\ UNCHANGED <<playwright, lock, waiting, drvState, crashes, taskVars, cproc, cdrv,
                   startCalls, stopCalls>>
    /\ UNCHANGED <<wfVars, batchVars, reqVars>>

\* the request is accepted (1 to 50 NSNs; the application serves requests
\* once lifespan's "await browser_pool.start()" has returned);
\* nsn_sem = Semaphore(NSN_CONCURRENCY); the gather creates one
\* _limited_scrape per NSN
BatchApiEnter(list) ==
    /\ bpc = "idle"
    /\ started
    /\ nsns' = list
    /\ bpc' = "gathering"
    /\ ipc' = [i \in DOMAIN list |-> "pending"]
    /\ iret' = [i \in DOMAIN list |-> BatchEntry(i, <<>>, "none")]
    /\ nsn_sem' = NSN_CONCURRENCY
    /\ bresults' = <<>>
    /\ completed' = <<>>
    /\ UNCHANGED <<poolVars, envVars, taskVars, ctlVars, wfVars, reqVars, bidx, processed,
                   successful, failed, delays>>

\* _limited_scrape(i) starts (in order, in one pass of the event loop):
\* "async with nsn_sem" and, with a free permit, _scrape_one calls scrape_nsn
LimitedScrapeBegin(i) ==
    /\ bpc = "gathering"
    /\ ipc[i] = "pending"
    /\ \A j \in 1..(i - 1) : ipc[j] # "pending"
    /\ IF nsn_sem > 0
         THEN /\ nsn_sem' = nsn_sem - 1
              /\ ipc' = [ipc EXCEPT ![i] = ItemEntered]
         ELSE /\ ipc' = [ipc EXCEPT ![i] = "waitingSem"]
              /\ UNCHANGED nsn_sem
    /\ UNCHANGED <<poolVars, envVars, taskVars, ctlVars, wfVars, reqVars, nsns, bpc, bidx, iret,
                   bresults, processed, successful, failed, delays, completed>>

\* the _limited_scrape calls waiting in "async with nsn_sem" (they queue in order)
NsnWaiters == {j \in DOMAIN ipc : ipc[j] = "waitingSem"}
NextNsnWaiter == CHOOSE j \in NsnWaiters : \A k \in NsnWaiters : j <= k

\* _scrape_one(i) ends: scrape_nsn returned (status success) or raised (the
\* except clause gives status error); leaving "async with nsn_sem" releases
\* the permit, which wakes the first waiter: it calls scrape_nsn
ScrapeOneEnds(i) ==
    /\ bpc = "gathering"
    /\ ScrapeReturned(i) \/ ScrapeRaised(i)
    /\ iret' = [iret EXCEPT ![i] =
                   IF ScrapeReturned(i)
                     THEN BatchEntry(i, format_nsn_with_dashes(nsns[i]), "success")
                     ELSE BatchEntry(i, nsns[i], "error")]
    /\ IF NsnWaiters = {}
         THEN /\ nsn_sem' = nsn_sem + 1
              /\ ipc' = [ipc EXCEPT ![i] = "done"]
         ELSE /\ ipc' = [ipc EXCEPT ![i] = "done", ![NextNsnWaiter] = ItemEntered]
              /\ UNCHANGED nsn_sem
    /\ completed' = Append(completed, i)
    /\ UNCHANGED <<poolVars, envVars, taskVars, ctlVars, wfVars, reqVars, nsns, bpc, bidx,
                   bresults, processed, successful, failed, delays>>

\* (mutant) results collected as the calls end (asyncio.as_completed)
CompletionOrder == completed

\* asyncio.gather(*[_limited_scrape(nsn) for nsn in request.nsns]): the k-th
\* result is the one of the k-th awaitable
GatherOrder == [k \in Items |-> k]

\* the gather returns the results in the order of its awaitables; the response
\* counts the results with status success and with status error
BatchApiReturn ==
    /\ bpc = "gathering"
    /\ \A i \in Items : ipc[i] = "done"
    /\ bresults' = [k \in Items |-> iret[GatherOrder[k]]]
    /\ successful' = Cardinality({i \in Items : iret[i].status = "success"})
    /\ failed' = Cardinality({i \in Items : iret[i].status = "error"})
    /\ bpc' = "responded"
    /\ UNCHANGED <<poolVars, envVars, taskVars, ctlVars, wfVars, reqVars, nsns, bidx, ipc, iret,
                   processed, delays, nsn_sem, completed>>

\* the wait of item i for a context, with every permit of the pool taken,
\* outlasts BROWSER_POOL_TIMEOUT
ItemLeaseTimeout(i) == Blocked(i) /\ Timeout(i)

\* the item tasks that have not ended
Unfinished == {i \in Items : ipc[i] # "done"}
\* the unfinished item tasks by the await of get_context they are suspended in
\* (the others are in nsn_sem.acquire() or in the contact discovery)
InAcquire == {i \in Unfinished : ipc[i] = "lease" /\ pc[i] = "waiting"}
BeforeYield == {i \in Unfinished : ipc[i] = "lease" /\ pc[i] \in {"acquired", "creating"} \cup EnsurePcs}
InBody == {i \in Unfinished : ipc[i] = "lease" /\ pc[i] = "using"}
InClose == {i \in Unfinished : ipc[i] = "lease" /\ pc[i] \in ClosingPcs}

\* CancelledError raised in "await ctx.close()" is not an Exception: it leaves
\* the finally block before self._semaphore.release()
CancelledInClose == "leaked"

\* wait_for(gather(...), timeout=600) times out with item tasks unfinished:
\* the gather is cancelled, which cancels every unfinished item task, and
\* CancelledError is raised in each at the await it is suspended in.  In
\* get_context: in the acquire nothing of the call is undone; between the
\* acquire and the yield the finally releases the permit; in the caller's
\* block the finally begins ctx.close(); in ctx.close() the cancellation
\* leaves the finally.  _scrape_one's "except Exception" does not catch it.
BatchDeadline ==
    /\ bpc = "gathering"
    /\ Unfinished # {}
    /\ \A i \in Items : ipc[i] # "pending"
    /\ \A i \in Unfinished : ipc[i] = "lease" =>
            /\ pc[i] # "idle"
            /\ pc[i] = "acquired" => lock # 0
    /\ bpc' = "cancelling"
    /\ ipc' = [i \in Items |-> IF i \in Unfinished THEN "cancelled" ELSE ipc[i]]
    /\ pc' = [t \in Tasks |->
                 IF t \in InAcquire \cup BeforeYield THEN "cancelled"
                 ELSE IF t \in InBody THEN "closingC"
                 ELSE IF t \in InClose THEN CancelledInClose
                 ELSE pc[t]]
    /\ semValue' = [semValue EXCEPT ![semaphore] = @ + Cardinality(BeforeYield)]
    /\ slot' = [t \in Tasks |-> IF t \in BeforeYield THEN "released" ELSE slot[t]]
    /\ lock' = IF lock \in BeforeYield THEN 0 ELSE lock
    /\ myBrowser' = [t \in Tasks |-> IF t \in BeforeYield \cup InBody THEN 0 ELSE myBrowser[t]]
    /\ myDrv' = [t \in Tasks |-> IF t \in BeforeYield \cup InBody THEN 0 ELSE myDrv[t]]
    /\ attempts' = [t \in Tasks |-> IF t \in BeforeYield \cup InBody THEN 0 ELSE attempts[t]]
    /\ wasBlocked' = [t \in Tasks |-> IF t \in InBody THEN FALSE ELSE wasBlocked[t]]
    /\ UNCHANGED <<started, playwright, browser, semaphore, waiting, envVars, mySem,
                   lastBusy, ctlVars, wfVars, reqVars, nsns, bidx, iret, bresults, processed,
                   successful, failed, delays, nsn_sem, completed>>

\* (mutant) a timed-out batch that answers with the results it has
TimeoutResultsPartial == [k \in 1..Len(completed) |-> iret[completed[k]]]

\* "except asyncio.TimeoutError: return _error_response(504, ...)": no results
TimeoutResults == <<>>

\* every cancelled item task has ended, so the gather is done and wait_for
\* raises TimeoutError: the endpoint answers 504; every "async with nsn_sem"
\* has been left
BatchTimeoutResponse ==
    /\ bpc = "cancelling"
    /\ \A i \in Items : pc[i] \notin ClosingPcs
    /\ bpc' = "timedOut"
    /\ bresults' = TimeoutResults
    /\ nsn_sem' = NSN_CONCURRENCY
    /\ UNCHANGED <<poolVars, envVars, taskVars, ctlVars, wfVars, reqVars, nsns, bidx, ipc, iret,
                   processed, successful, failed, delays, completed>>

\* one batch, run by scrape_batch (command line and Streamlit without the
\* pool, /api/batch with the pool started) or by the concurrent endpoint
NextBatch ==
    \/ AppStart
    \/ StartDriver(1)
    \/ \E m \in Capacities : StartBrowserConfigured(1, m)
    \/ \E list \in Submissions : ScrapeBatchEnter(list)
    \/ BatchItem
    \/ \E i \in Tasks : ItemLease(i)
    \/ \E i \in Tasks : ItemLeaseTimeout(i)
    \/ \E saved \in BOOLEAN : BatchItemReturns(saved)
    \/ BatchItemRaises
    \/ BatchSleepEnd
    \/ ScrapeBatchReturn
    \/ \E list \in Submissions : BatchApiEnter(list)
    \/ \E i \in Items : LimitedScrapeBegin(i)
    \/ \E i \in Items : ScrapeOneEnds(i)
    \/ BatchApiReturn
    \/ BatchDeadline
    \/ BatchTimeoutResponse

SpecBatch == Init /\ [][NextBatch]_vars

(***************************************************************************)
(* One request to a leasing endpoint (api.py): /api/scrape-nsns-by-date    *)
(* leases a context in _scrape_with_pool, /api/scrape-nsn-suppliers in     *)
(* Stage A of scrape_nsn; both run under asyncio.wait_for(..., 280).  The  *)
(* request leases with get_context call 1; calls 2 and 3 are the leases of *)
(* other requests.                                                         *)
(***************************************************************************)
LeasingEndpoints == {"scrape-nsns-by-date", "scrape-nsn-suppliers"}
PoolTimeouts == {DEPLOYED_POOL_TIMEOUT, BROWSER_POOL_TIMEOUT}
Responses == {"200", "500", "503", "504"}
OtherRequests == Tasks \ {1}

\* the endpoint begins to serve the request: wait_for(...) starts the timer of
\* the request and the coroutine that calls get_context
RequestBegin(ep, configured) ==
    /\ rpc = "idle"
    /\ started
    /\ endpoint' = ep
    /\ pool_timeout' = configured
    /\ rstart' = now
    /\ rpc' = "leasing"
    /\ UNCHANGED <<poolVars, envVars, taskVars, ctlVars, wfVars, batchVars>>

\* the steps of the get_context call of the request
RequestLease ==
    \/ rpc = "leasing" /\ Request(1)
    \/ rpc = "leasing" /\ Grant(1)
    \/ EnsureEnter(1)
    \/ CreateContext(1)
    \/ CreateContextFail(1)
    \/ BodyExit(1, "closingR")
    \/ BodyExit(1, "closingE")
    \/ CloseContext(1)

\* the leases of the other requests, which hold their contexts for any time
OtherLease(t) ==
    \/ started /\ Request(t)
    \/ Grant(t)
    \/ EnsureEnter(t)
    \/ CreateContext(t)
    \/ BodyExit(t, "closingR")
    \/ CloseContext(t)

\* the timers of the request
Elapsed == now - rstart
PoolTimerDue == rpc = "leasing" /\ Blocked(1) /\ Elapsed >= pool_timeout
RequestTimerDue == rpc = "leasing" /\ Elapsed >= REQUEST_DEADLINE

\* the coroutine of the request can run without waiting for anything
RequestRunnable ==
    \/ /\ rpc = "leasing"
       /\ \/ pc[1] \in {"idle", "acquired"} \cup (EndPcs \ {"returned"})
          \/ pc[1] = "waiting" /\ ~Blocked(1)
          \/ pc[1] = "returned" /\ endpoint = "scrape-nsns-by-date"
    \/ rpc = "cancelling" /\ pc[1] \notin ClosingPcs

\* time passes while the request waits
RequestTick ==
    /\ rpc \in {"leasing", "cancelling"}
    /\ now + ClockStep <= MaxClock
    /\ ~RequestRunnable
    /\ ~PoolTimerDue
    /\ ~RequestTimerDue
    /\ now' = now + ClockStep
    /\ UNCHANGED <<poolVars, envVars, taskVars, ctlVars, batchVars, reqVars, finished, wpc, timeout_seconds,
                   max_suppliers, firecrawlConfigured, scrape_start, deadline, fpc, fres,
                   all_suppliers, epc, econtact, estart, firecrawl_sem, timed_out, slowCall,
                   result>>

\* the wait_for inside get_context times out: RuntimeError("Browser pool busy ...")
RequestLeaseTimeout == PoolTimerDue /\ Timeout(1)

\* the wait_for of the endpoint times out: the coroutine of the request is
\* cancelled at the await it is suspended in (in get_context: the acquire,
\* new_context, the caller's block, ctx.close(); after it: the contact
\* discovery of scrape_nsn)
RequestDeadline ==
    /\ RequestTimerDue
    /\ ~RequestRunnable
    /\ rpc' = "cancelling"
    /\ pc' = [pc EXCEPT ![1] =
                 CASE pc[1] \in {"waiting", "creating"} -> "cancelled"
                   [] pc[1] = "using" -> "closingC"
                   [] pc[1] \in ClosingPcs -> CancelledInClose
                   [] OTHER -> pc[1]]
    /\ semValue' = IF pc[1] = "creating" THEN ReleasedSem ELSE semValue
    /\ slot' = IF pc[1] = "creating" THEN ReleasedSlot(1) ELSE slot
    /\ myBrowser' = IF pc[1] \in {"creating", "using"} THEN Dropped(myBrowser, 1) ELSE myBrowser
    /\ wasBlocked' = IF pc[1] = "using" THEN [wasBlocked EXCEPT ![1] = FALSE] ELSE wasBlocked
    /\ UNCHANGED <<started, playwright, browser, semaphore, lock, waiting, envVars, mySem,
                   myDrv, attempts, lastBusy, ctlVars, wfVars, batchVars, endpoint, rstart,
                   pool_timeout>>

\* the status of the response by the way the coroutine of the request ended:
\* "except RuntimeError" gives 503, "except Exception" 500
Outcome ==
    CASE pc[1] = "returned" -> "200"
      [] pc[1] \in {"busy", "notStarted"} -> "503"
      [] OTHER -> "500"

\* the endpoint answers: the response of a request that ended by itself
RequestRespond ==
    /\ rpc = "leasing"
    /\ pc[1] \in EndPcs
    /\ rpc' = Outcome
    /\ UNCHANGED <<poolVars, envVars, taskVars, ctlVars, wfVars, batchVars, endpoint, rstart,
                   pool_timeout>>

\* the cancelled coroutine has ended: wait_for raises TimeoutError and
\* "except asyncio.TimeoutError" answers 504
RequestRespondTimeout ==
    /\ rpc = "cancelling"
    /\ pc[1] \notin ClosingPcs
    /\ rpc' = "504"
    /\ UNCHANGED <<poolVars, envVars, taskVars, ctlVars, wfVars, batchVars, endpoint, rstart,
                   pool_timeout>>

NextRequest ==
    \/ AppStart
    \/ StartDriver(1)
    \/ StartBrowser(1)
    \/ \E ep \in LeasingEndpoints, configured \in PoolTimeouts : RequestBegin(ep, configured)
    \/ RequestLease
    \/ \E t \in OtherRequests : OtherLease(t)
    \/ RequestTick
    \/ RequestLeaseTimeout
    \/ RequestDeadline
    \/ RequestRespond
    \/ RequestRespondTimeout

SpecRequest == Init /\ [][NextRequest]_vars

(***************************************************************************)
(* The timer of asyncio.wait_for fires after its finite timeout            *)
(* (config.BROWSER_POOL_TIMEOUT seconds) unless the wait has ended.        *)
(***************************************************************************)
Fairness == \A t \in Tasks : WF_vars(Timeout(t))
FairSpec == Spec /\ Fairness

(***************************************************************************)
(* Properties of the pool.                                                 *)
(***************************************************************************)

\* C1: while the pool is started, the calls holding a slot, the permits taken
\* and the live contexts each number at most MAX_BROWSER_PAGES.
C1_AtMostMaxHeld ==
    started => /\ Cardinality(Holders) <= MAX_BROWSER_PAGES
               /\ HeldSlots <= MAX_BROWSER_PAGES
               /\ Cardinality(LiveContexts) <= MAX_BROWSER_PAGES

\* all slots are in use by live contexts while one more call waits
C1_Witness ==
    /\ Cardinality(LiveContexts) = MAX_BROWSER_PAGES
    /\ \E t \in Tasks : Blocked(t)

\* C2: a call that has ended holds no permit (every acquired slot was
\* released, on every exit), and no call releases twice.
C2_ReleasedOnEveryExit ==
    \A t \in Tasks : /\ pc[t] \in EndPcs => slot[t] # "held"
                     /\ slot[t] # "double"

\* C3 as stated: a waiting call ends, and ends only granted or with the
\* "Browser pool busy" error.
C3_EndsGrantedOrBusy ==
    /\ \A t \in Tasks : (pc[t] = "waiting") ~> (pc[t] # "waiting")
    /\ [][\A t \in Tasks : pc[t] = "waiting" /\ pc'[t] # "waiting"
              => pc'[t] \in {"acquired", "busy"}]_vars

\* C3 (amended): a waiting call never waits forever; it ends granted, with
\* the "Browser pool busy" error carrying the pool's waiting count and
\* MAX_BROWSER_PAGES, or with the cancellation of its task.  A call that
\* times out while every slot is held ends with the error.
C3_WaitEnds ==
    /\ \A t \in Tasks : (pc[t] = "waiting") ~> (pc[t] # "waiting")
    /\ [][\A t \in Tasks : pc[t] = "waiting" /\ pc'[t] # "waiting"
              => /\ pc'[t] \in {"acquired", "busy", "cancelled"}
                 /\ pc'[t] = "acquired" => slot'[t] = "held"
                 /\ pc'[t] = "busy" =>
                        /\ slot'[t] = "none"
                        /\ waiting' = waiting - 1
                        /\ lastBusy' = [waiting |-> waiting',
                                        max_pages |-> MAX_BROWSER_PAGES]]_vars

\* a call issued with every slot held has ended with the error, the slots
\* still held
C3_Witness ==
    \E t \in Tasks : /\ pc[t] = "busy"
                     /\ wasBlocked[t]
                     /\ HeldSlots = MAX_BROWSER_PAGES
                     /\ lastBusy.max_pages = MAX_BROWSER_PAGES

\* C4: a call waits without being grantable only while all MAX_BROWSER_PAGES
\* slots are held (so up to that many concurrent calls are granted at once);
\* a grant happens only with fewer slots held, and a blocked call becomes
\* grantable only by a release.
C4_BlocksOnlyWhenFull ==
    /\ [](\A t \in Tasks : Blocked(t) => HeldSlots = MAX_BROWSER_PAGES)
    /\ [][\A t \in Tasks : pc[t] = "waiting" /\ pc'[t] = "acquired"
              => HeldSlots < MAX_BROWSER_PAGES /\ HeldSlots' = HeldSlots + 1]_vars
    /\ [][\A t \in Tasks : Blocked(t) /\ pc'[t] = "waiting" /\ ~Blocked(t)'
              => HeldSlots' = HeldSlots - 1]_vars

\* the call that found the pool full holds a context, after a release
C4_Witness ==
    \E t \in Tasks : /\ wasBlocked[t]
                     /\ pc[t] = "using"
                     /\ \E u \in Tasks : pc[u] = "returned"
                     /\ Cardinality(LiveContexts) = MAX_BROWSER_PAGES

\* C5: with no stop(), all start() calls together launch one browser
\* process and create one semaphore.
C5_StartLaunchesOnce ==
    stopCalls = 0 => startLaunches <= 1 /\ semaphore <= 1

\* C6: a stop() on a started pool clears the started flag at once and, when
\* no start() and no restart by a lease ran during it, ends with the
\* browser and the driver fields cleared and the pool not started, whether or
\* not the closes raised; a stop() on a pool that is not started changes
\* nothing.
C6_StopIdempotent ==
    /\ [][stopCalls' # stopCalls /\ started => ~started']_vars
    /\ [][\A c \in Ctl : cpc[c] \in StopPcs /\ cpc'[c] = "idle" /\ ~stopRaced'[c]
              => ~started' /\ browser' = 0 /\ playwright' = 0]_vars
    /\ [][stopCalls' # stopCalls /\ ~started
              => UNCHANGED <<poolVars, envVars, cpc, cproc, cdrv>>]_vars

\* a started pool was stopped, and a second stop() found it stopped
C6_Witness ==
    /\ startLaunches = 1
    /\ stopCalls = 2
    /\ \A c \in Ctl : ~stopRaced[c]
    /\ \A c \in Ctl : cpc[c] = "idle"
    /\ \E d \in DrvIds : drvState[d] = "stopped"
    /\ ~started /\ browser = 0 /\ playwright = 0

\* C7: a call makes at most one restart attempt; a restart that succeeds
\* hands the call the new, running process; one that fails ends the call
\* with the error, launches nothing more, and gives the permit back.
C7_OneRelaunchAttempt ==
    /\ [](\A t \in Tasks : attempts[t] <= 1)
    /\ [][\A t \in Tasks : pc[t] \in EnsurePcs /\ pc'[t] = "creating"
              => /\ myBrowser'[t] = browser'
                 /\ procState[browser'] = "unborn"
                 /\ procState'[browser'] = "running"]_vars
    /\ [][\A t \in Tasks : pc[t] \in EnsurePcs /\ pc'[t] = "error"
              => /\ procState' = procState /\ browser' = browser
                 /\ slot[t] = "held" /\ slot'[t] = "released"
                 /\ semValue'[semaphore] = semValue[semaphore] + 1
                 /\ lock' = 0]_vars

\* the restart of the only call failed, and its permit is back
C7_Witness ==
    \E t \in Tasks : /\ pc[t] = "error"
                     /\ \A u \in Tasks \ {t} : pc[u] = "idle"
                     /\ crashes = 1
                     /\ browser # 0 /\ procState[browser] = "closed"
                     /\ NumLaunched = 1
                     /\ semValue[semaphore] = MAX_BROWSER_PAGES

(***************************************************************************)
(* Properties of scrape_nsn.                                               *)
(***************************************************************************)

\* C8: when the fetch of one source fails (it raises, or it returns a failed
\* ScrapeResult), scrape_nsn does not raise; the result it returns carries
\* the status of each source as its fetch ended, a status of the contact
\* discovery, and, when the suppliers are not capped, every named supplier
\* of a source that succeeded.
C8_SourcesIndependent ==
    /\ (\E f \in Sources : fpc[f] = "raised" \/ (fpc[f] = "done" /\ ~fres[f].success))
           => wpc # "raised"
    /\ wpc = "returned" =>
           /\ result.dibbsStatus = SourceStatus(fres["dibbs"])
           /\ result.wbpartsStatus = SourceStatus(fres["wbparts"])
           /\ result.firecrawlStatus \in
                  {"skipped", "success", "partial", "error", "partial_timeout"}
           /\ max_suppliers = 0 =>
                  \A f \in Sources : \A k \in DOMAIN fres[f].suppliers :
                      \E i \in DOMAIN result.suppliers :
                          SupplierKey(result.suppliers[i]) = SupplierKey(fres[f].suppliers[k])

\* C9: with a deadline set, no find_supplier_contact call begins with
\* DEADLINE_MARGIN seconds or less to the deadline, whether or not it waited
\* for a permit of firecrawl_sem; a supplier whose turn comes that late ends
\* without a call and without a contact, and the status is partial_timeout.
C9_NoLateEnrichment ==
    [][/\ \A i \in DOMAIN epc :
              epc[i] # "calling" /\ epc'[i] = "calling"
                  => deadline' = NoDeadline \/ deadline' - now' > DEADLINE_MARGIN
       /\ \A i \in DOMAIN epc :
              (epc[i] = "pending" /\ epc'[i] # "pending"
                   /\ deadline # NoDeadline /\ deadline - now <= DEADLINE_MARGIN)
                  => (epc'[i] = "skipped" /\ econtact'[i] = "none" /\ timed_out')
       /\ wpc # "returned" /\ wpc' = "returned" /\ timed_out'
              => result'.firecrawlStatus = "partial_timeout"]_vars

\* C10: with timeout_seconds = T > 0 the deadline is scrape_start + T; no
\* find_supplier_contact call begins later than T - DEADLINE_MARGIN after
\* scrape_start; and when no call took longer than DEADLINE_MARGIN,
\* scrape_nsn returns within T of scrape_start.
C10_DeadlineFromEntry ==
    [][/\ deadline' # NoDeadline => deadline' = scrape_start' + timeout_seconds'
       /\ \A i \in DOMAIN epc :
              timeout_seconds > 0 /\ epc[i] # "calling" /\ epc'[i] = "calling"
                  => now' - scrape_start' <= timeout_seconds - DEADLINE_MARGIN
       /\ wpc # "returned" /\ wpc' = "returned" /\ timeout_seconds > 0 /\ ~slowCall'
              => now' - scrape_start' <= timeout_seconds]_vars

\* C11: the firecrawlStatus of the result returned is given by the status
\* table over the outcomes of the suppliers: skipped when no contact
\* discovery ran (no suppliers, or Firecrawl not configured);
\* partial_timeout when a supplier was skipped for the deadline; otherwise
\* success / partial / error as all / some / none of the suppliers obtained a
\* contact of high or medium confidence.
C11_StatusTable ==
    wpc = "returned" =>
        LET n == Len(all_suppliers)
            timedOut == {i \in DOMAIN epc : epc[i] = "skipped"}
            succeeded == {i \in DOMAIN epc : /\ epc[i] = "done"
                                              /\ econtact[i] \in {"high", "medium"}}
            ok == Cardinality(succeeded)
        IN  result.firecrawlStatus =
                IF n = 0 \/ ~firecrawlConfigured THEN "skipped"
                ELSE IF timedOut # {} THEN "partial_timeout"
                ELSE IF ok = n THEN "success"
                ELSE IF ok > 0 THEN "partial"
                ELSE "error"

\* a result with three suppliers, one with a contact of medium confidence,
\* one with a contact of low confidence and one without contact
C11_Witness ==
    /\ wpc = "returned"
    /\ result.firecrawlStatus = "partial"
    /\ \E i, j, k \in DOMAIN econtact :
           econtact[i] = "medium" /\ econtact[j] = "low" /\ econtact[k] = "none"

(***************************************************************************)
(* Properties of the merge.                                                *)
(***************************************************************************)
\* the (company name, CAGE code) pair of a supplier
Pair(s) == <<s.companyName, s.cageCode>>
\* the rows handed to get_unique_suppliers_list: DIBBS first, then WBParts
Listed == fres["dibbs"].suppliers \o fres["wbparts"].suppliers
\* the first row with the pair of s
FirstRow(s) == CHOOSE k \in DOMAIN Listed :
                   /\ Pair(Listed[k]) = Pair(s)
                   /\ \A h \in DOMAIN Listed : Pair(Listed[h]) = Pair(s) => k <= h

\* C12: the merged list has no two entries with the same (company name, CAGE
\* code) pair; every entry is the first row listed with its pair, fields
\* included; and the entries stand in the order of those first rows.
C12_MergeUniqueFirstWins ==
    wpc = "returned" =>
        /\ \A i, j \in DOMAIN all_suppliers :
               i # j => Pair(all_suppliers[i]) # Pair(all_suppliers[j])
        /\ \A i \in DOMAIN all_suppliers :
               /\ \E k \in DOMAIN Listed : Pair(Listed[k]) = Pair(all_suppliers[i])
               /\ all_suppliers[i] = Listed[FirstRow(all_suppliers[i])]
        /\ \A i, j \in DOMAIN all_suppliers :
               i < j => FirstRow(all_suppliers[i]) < FirstRow(all_suppliers[j])

\* DIBBS listed ACME twice with two part numbers, WBParts listed ACME again
\* and ACME under another CAGE code: the merge kept the first ACME row and
\* the other CAGE code
C12_Witness ==
    /\ wpc = "returned"
    /\ fres["dibbs"].suppliers = <<Acme, AcmeAlt>>
    /\ fres["wbparts"].suppliers = <<AcmeW, AcmeOther>>
    /\ all_suppliers = <<Acme, AcmeOther>>

\* C13 as stated: the merged list carries exactly the pairs of the rows of
\* the sources whose fetch succeeded.
C13_AllPairsKept ==
    wpc = "returned" =>
        {Pair(all_suppliers[i]) : i \in DOMAIN all_suppliers} =
        {Pair(Listed[k]) : k \in DOMAIN Listed}

\* C13 (amended): the merged list carries exactly the pairs of the rows with
\* a company name of the sources whose fetch succeeded: no such pair is
\* missing, two different pairs are never merged into one, and a failed
\* fetch contributes nothing.
C13_NamedPairsKept ==
    wpc = "returned" =>
        /\ {Pair(all_suppliers[i]) : i \in DOMAIN all_suppliers} =
           {Pair(Listed[k]) : k \in {h \in DOMAIN Listed : Listed[h].companyName # ""}}
        /\ \A i \in DOMAIN all_suppliers :
               \E g \in Sources :
                   /\ fres[g].success
                   /\ \E k \in DOMAIN fres[g].suppliers :
                          fres[g].suppliers[k] = all_suppliers[i]

\* DIBBS succeeded with a named row and a row without company name, WBParts
\* failed: the merge has the named row only
C13_Witness ==
    /\ wpc = "returned"
    /\ fres["dibbs"] = [success |-> TRUE, suppliers |-> <<Blank, Odd>>]
    /\ ~fres["wbparts"].success
    /\ all_suppliers = <<Odd>>


(***************************************************************************)
(* Claims about scrape_batch                                               *)
(***************************************************************************)
\* scrape_batch is between two items or has returned
BetweenItems == bpc \in {"loop", "sleeping", "returned"}

\* the entries of the result list with the given status
WithStatus(s) == {k \in DOMAIN bresults : bresults[k].status = s}

C16_CountersConsistent ==
    BetweenItems =>
        /\ processed = successful + failed
        /\ successful = Cardinality(WithStatus("success"))
        /\ failed = Cardinality(WithStatus("error"))
        /\ bpc = "returned" => processed = Len(nsns)

\* C17: an item of scrape_batch that fails validate_nsn is recorded in the
\* same pass of the loop as an error result and counted in processed and
\* failed, scrape_nsn is never entered for it and get_context is never
\* called for it.
C17_InvalidCostsNothing ==
    /\ [][(bpc = "loop" /\ bidx <= Len(nsns) /\ ~validate_nsn(nsns[bidx])
              /\ bresults' # bresults) =>
            /\ bresults' = Append(bresults, BatchEntry(bidx, nsns[bidx], "error"))
            /\ processed' = processed + 1
            /\ failed' = failed + 1
            /\ successful' = successful
            /\ ipc'[bidx] = "none"
            /\ pc'[bidx] = "idle"]_vars
    /\ [](bpc \in {"loop", "scraping", "sleeping", "returned"} =>
            \A i \in Items : ~validate_nsn(nsns[i]) =>
                /\ ipc[i] = "none"
                /\ pc[i] = "idle"
                /\ i < bidx => bresults[i] = BatchEntry(i, nsns[i], "error"))

\* an invalid item between two valid ones has its error entry, the pool is
\* started and the valid items took their leases
C17_Witness ==
    /\ bpc = "returned"
    /\ Len(nsns) = 3
    /\ ~validate_nsn(nsns[2])
    /\ bresults[2].status = "error"
    /\ pc[1] = "returned"
    /\ pc[3] = "returned"
    /\ pc[2] = "idle"
    /\ processed = 3
    /\ failed = 1

\* C19: scrape_batch over N items has slept exactly N-1 pacing delays when
\* it returns, for every mix of valid, invalid and failing items.
C19_DelaysBetweenItems == bpc = "returned" => delays = Len(nsns) - 1


\* a batch is complete: scrape_batch returned or the endpoint built its response
BatchComplete == bpc \in {"returned", "responded"}

\* C14: when a batch run by either strategy is complete, the result list has
\* one entry per submitted item and entry i is the outcome of item i: it was
\* made for item i, carries its NSN, is an error when the item is invalid
\* (scrape_batch) or its scrape_nsn raised, and a success when the endpoint's
\* scrape_nsn returned; this whatever the order in which the items ended.
C14_ResultsInSubmissionOrder ==
    BatchComplete =>
        /\ Len(bresults) = Len(nsns)
        /\ \A i \in Items :
              /\ bresults[i].item = i
              /\ bresults[i].nsn \in {nsns[i], format_nsn_with_dashes(nsns[i])}
              /\ bresults[i].status \in {"success", "error"}
              /\ pc[i] \in {"busy", "error", "bodyRaised"} => bresults[i].status = "error"
              /\ (bpc = "returned" /\ ~validate_nsn(nsns[i])) => bresults[i].status = "error"
              /\ (bpc = "responded" /\ pc[i] = "returned") => bresults[i].status = "success"

\* the endpoint answers a batch whose second item ended before its first,
\* with different outcomes
C14_Witness ==
    /\ bpc = "responded"
    /\ Len(completed) >= 2
    /\ completed[1] = 2
    /\ completed[2] = 1
    /\ bresults[1].status # bresults[2].status

(***************************************************************************)
(* Claims about the concurrent batch endpoint                              *)
(***************************************************************************)
\* the items whose scrape_nsn call is in progress
InFlight == {i \in Items : ipc[i] \in {"lease", "standalone"}}

\* C18: in the concurrent batch an item that fails validate_nsn takes no
\* permit of nsn_sem, never enters scrape_nsn (so no fetch is started for
\* it), never calls get_context, and its result is an error.
C18_InvalidValidatedFirst ==
    bpc \in {"gathering", "responded"} =>
        \A i \in Items : ~validate_nsn(nsns[i]) =>
            /\ ipc[i] \in {"pending", "done"}
            /\ pc[i] = "idle"
            /\ ipc[i] = "done" => iret[i].status = "error"

\* C20: in the concurrent batch at most NSN_CONCURRENCY scrape_nsn calls are
\* in progress, and for every configured MAX_BROWSER_PAGES no item waits
\* for a context with every permit taken while another item of the batch
\* holds one.
C20_CapFitsPool ==
    bpc = "gathering" =>
        /\ Cardinality(InFlight) <= NSN_CONCURRENCY
        /\ \A i \in Items :
              ~(Blocked(i) /\ \E j \in Items \ {i} : slot[j] = "held" /\ pc[j] \in HoldingPcs)


\* C21: the concurrent batch runs under one outer deadline.  It expires only
\* with item tasks unfinished, and the call then answers with the batch
\* timeout (504) and no per-item result, whatever items had finished; when
\* every item finishes first, the call answers with one result per item and
\* successful + failed = the number of items.
C21_OuterDeadline ==
    /\ [][(bpc = "gathering" /\ bpc' = "cancelling") =>
             \E i \in Items : ipc[i] \in {"lease", "waitingSem"}]_vars
    /\ [][(bpc = "cancelling" /\ bpc' # "cancelling") => bpc' = "timedOut"]_vars
    /\ [](bpc = "timedOut" => bresults = <<>> /\ successful = 0 /\ failed = 0)
    /\ [][(bpc = "gathering" /\ bpc' = "responded") =>
             \A i \in Items : ipc[i] = "done"]_vars
    /\ [](bpc = "responded" =>
             /\ Len(bresults) = Len(nsns)
             /\ successful + failed = Len(nsns))

\* a batch of three timed out after its first item had succeeded, with the
\* second holding a context (closed and released since) and the third
\* waiting for a permit of the pool
C21_Witness ==
    /\ bpc = "timedOut"
    /\ Len(nsns) = 3
    /\ iret[1].status = "success"
    /\ pc[2] = "cancelled"
    /\ slot[2] = "released"
    /\ pc[3] = "cancelled"
    /\ slot[3] = "none"

\* C30: when the batch has answered with the timeout, no item task is left
\* running, holding a permit of the pool or waiting for one: every permit
\* taken by an item of the batch has been released.
C30_SlotsBackAfterTimeout ==
    bpc = "timedOut" =>
        \A i \in Items : /\ pc[i] \in EndPcs \cup {"idle"}
                          /\ slot[i] # "held"


(***************************************************************************)
(* Claims about the leasing endpoints                                      *)
(***************************************************************************)
\* C22: a request to a leasing endpoint that never obtained a slot of the
\* pool is answered 503, when the pool-lease timeout has elapsed and before
\* the 280 s deadline of the request; it is not answered 504.
C22_SaturatedGives503 ==
    (rpc \in Responses /\ slot[1] = "none") =>
        /\ rpc = "503"
        /\ Elapsed = pool_timeout
        /\ Elapsed < REQUEST_DEADLINE


\* C28: the waiting counter of the pool equals the number of get_context
\* calls suspended in the acquire, however their waits ended (acquisition,
\* lease timeout, cancellation of the task); it is never negative.
C28_WaitingCounterExact ==
    /\ waiting = Cardinality({t \in Tasks : pc[t] = "waiting"})
    /\ waiting >= 0


\* C23: the contact discovery returns exactly one SupplierWithContact per
\* merged, capped supplier, at the index of that supplier and with its
\* company name, CAGE code and part number, whatever the order in which the
\* calls of find_supplier_contact ended, failed or were skipped.
C23_OneResultPerEntity ==
    wpc = "returned" =>
        /\ Len(result.suppliers) = Len(all_suppliers)
        /\ max_suppliers > 0 => Len(result.suppliers) <= max_suppliers
        /\ \A i \in Entities :
               /\ result.suppliers[i].companyName = all_suppliers[i].companyName
               /\ result.suppliers[i].cageCode = all_suppliers[i].cageCode
               /\ result.suppliers[i].partNumber = all_suppliers[i].partNumber
               /\ result.suppliers[i].contact =
                      IF result.firecrawlStatus = "skipped" THEN "none" ELSE econtact[i]

\* the call returned after a discovery whose calls ended out of the order of
\* the suppliers, one of them without a contact
C23_Witness ==
    /\ wpc = "returned"
    /\ Len(finished) >= 3
    /\ finished[1] # 1
    /\ \E i \in Entities : econtact[i] = "none"
    /\ \E i \in Entities : econtact[i] = "high"
    /\ result.suppliers[1].companyName # result.suppliers[2].companyName


\* the find_supplier_contact calls in flight
Calling == {i \in DOMAIN epc : epc[i] = "calling"}

\* C24: at most FIRECRAWL_CONCURRENCY contact-discovery calls are in flight
\* at any time, and this bound is apart from the browser pool: while the
\* discovery runs the call holds no pool slot and waits for none, the lease
\* of the two fetches having been given back before the discovery began.
C24_EnrichmentBounded ==
    /\ Cardinality(Calling) <= FIRECRAWL_CONCURRENCY
    /\ wpc = "stageC" =>
          /\ firecrawl_sem + Cardinality(Calling) = FIRECRAWL_CONCURRENCY
          /\ pc[1] \in {"idle", "returned"}
          /\ slot[1] # "held"
          /\ semaphore # 0 => semValue[semaphore] = MAX_BROWSER_PAGES

\* the pool path: the lease was given back, FIRECRAWL_CONCURRENCY calls are
\* in flight and a further supplier waits for a permit of firecrawl_sem
C24_Witness ==
    /\ wpc = "stageC"
    /\ pc[1] = "returned"
    /\ slot[1] = "released"
    /\ Cardinality(Calling) = FIRECRAWL_CONCURRENCY
    /\ \E i \in Entities : epc[i] = "waitingSem"


\* the fetches of the pool path still at work on the leased context
FetchesRunning == {f \in Sources : fpc[f] \in {"newPage", "scraping"}}

\* C29: the context leased for the two fetches is closed, and its slot given
\* back, only after both fetches have ended, also when one of them raises
\* while the other is still at work: no fetch ever runs on a context that is
\* being closed or whose slot has been released.
C29_ContextOutlivesFetches ==
    (started /\ wpc \in {"stageA", "raised"} /\ pc[1] \in ClosingPcs \cup EndPcs)
        => FetchesRunning = {}


\* the get_context calls inside the restart of _ensure_browser
Restarting == {t \in Tasks : pc[t] \in EnsurePcs}

\* C25: the health check and restart of the pool is mutually exclusive: of
\* the lease holders that find the browser disconnected one at a time is in
\* the restart, one relaunch is made per lost process and the other holders
\* take the relaunched process; the pool never has more than one browser
\* process running.
C25_RestartExclusive ==
    /\ Cardinality(Restarting) <= 1
    /\ \A t \in Restarting : lock = t
    /\ Cardinality(RunningProcs) <= 1
    /\ NumLaunched <= startLaunches + crashes
    /\ \A t \in Tasks :
          (pc[t] = "creating" /\ IsConnected /\ procState[myBrowser[t]] = "running")
              => myBrowser[t] = browser

\* the browser died with two leases granted: one holder is relaunching it,
\* the old process closed, while the other holder waits for the lock
C25_Witness ==
    \E t1, t2 \in Tasks :
        /\ t1 # t2
        /\ crashes = 1
        /\ ~IsConnected
        /\ lock = t1
        /\ pc[t1] = "launching" /\ slot[t1] = "held"
        /\ pc[t2] = "acquired" /\ slot[t2] = "held"


\* a stop() call has completed and no start() call has begun since
Stopped ==
    /\ ~started
    /\ stopCalls > 0
    /\ \A c \in Ctl : cpc[c] = "idle"

\* C26: while the pool is stopped, from the completion of stop() until the
\* next start(), no browser process is launched and no context is granted,
\* also for the get_context calls that passed the started check before
\* stop() ran and were waiting for a slot or inside the health check.
C26_NothingWhileStopped ==
    [][Stopped =>
          /\ NumLaunched' = NumLaunched
          /\ \A t \in Tasks : pc'[t] = "using" => pc[t] = "using"]_vars


\* C27: permit conservation: the free permits of the pool's semaphore plus
\* the slots held add up to MAX_BROWSER_PAGES in every state, also across a
\* stop() followed by a start() with leases outstanding or requests
\* waiting, and a release never takes the free permits above
\* MAX_BROWSER_PAGES.
C27_PermitsConserved ==
    semaphore # 0 =>
        /\ semValue[semaphore] <= MAX_BROWSER_PAGES
        /\ semValue[semaphore] + HeldSlots = MAX_BROWSER_PAGES

=============================================================================
